---- MODULE Spec2Model ----
(***************************************************************************)
(* State-machine model of src/map.js: the category/location Data Model,    *)
(* the marker layer (markersGroup), the search handler, the highlight      *)
(* state and the memoizing image cache.                                    *)
(*                                                                         *)
(* JavaScript strings are modelled as sequences of one-character strings   *)
(* so that trim(), toLowerCase(), includes() and parseFloat() are computed *)
(* rather than assumed.                                                    *)
(***************************************************************************)
EXTENDS Integers, Sequences, FiniteSets, TLC

\* ------------------------------------------------------------------ bounds
\* Number of loadData calls explored in one behaviour.
MaxLoads == 2

\* Image loads (Promises created by loadImage) explored in one behaviour.
MaxPromises == 3

\* Background warm-up runs (scheduled or awaiting an image) at one time.
MaxWarm == 2

\* Focus timeouts pending at one time.
MaxTimers == 2

\* Draft markers placed in one behaviour.
MaxDrafts == 2

\* Rows of related-items-container at one time.
MaxRows == 2

\* Clipboard writes (pending or done) explored in one behaviour.
MaxCopies == 2

\* Locations in each category of the large document.
BigLocations == 14

\* warmCache(urls, limit = 8)
DefaultWarmLimit == 8

\* matches.slice(0, 25): entries shown in the search-results panel.
MaxResults == 25

\* Zoom levels are kept in tenths: L.map minZoom -15 and maxZoom 10,
\* focusLocation's defaultZoom 2.4, the search-result click's zoom 2.7.
MapMinZoom == -150
MapMaxZoom == 100
DefaultZoom == 24

\* warmCache(categoryImageUrls, 6) in the accordion's click handler.
AccordionWarmLimit == 6
SearchResultZoom == 27

\* ------------------------------------------------------------ JS strings
RECURSIVE TrimStart(_)
\* String.prototype.trim, leading half: drop leading blanks.
TrimStart(s) ==
  IF s # <<>> /\ Head(s) = " " THEN TrimStart(Tail(s)) ELSE s

RECURSIVE TrimEnd(_)
\* String.prototype.trim, trailing half: drop trailing blanks.
TrimEnd(s) ==
  IF s # <<>> /\ s[Len(s)] = " " THEN TrimEnd(SubSeq(s, 1, Len(s) - 1)) ELSE s

\* String.prototype.trim
Trim(s) == TrimEnd(TrimStart(s))

\* toLowerCase on one character of the modelled alphabet.
LowerChar(ch) ==
  CASE ch = "A" -> "a"
    [] ch = "B" -> "b"
    [] ch = "Z" -> "z"
    [] OTHER -> ch

\* String.prototype.toLowerCase
ToLowerCase(s) == [i \in 1..Len(s) |-> LowerChar(s[i])]

\* String.prototype.includes: q occurs in s as a contiguous substring.
Includes(s, q) ==
  \E i \in 1..(Len(s) - Len(q) + 1) : SubSeq(s, i, i + Len(q) - 1) = q

\* Value of a decimal digit character, -1 for any other character.
DigitVal(ch) ==
  CASE ch = "0" -> 0 [] ch = "1" -> 1 [] ch = "2" -> 2 [] ch = "3" -> 3
    [] ch = "4" -> 4 [] ch = "5" -> 5 [] ch = "6" -> 6 [] ch = "7" -> 7
    [] ch = "8" -> 8 [] ch = "9" -> 9 [] OTHER -> -1

RECURSIVE DigitPrefix(_)
\* Longest prefix of s made of decimal digits.
DigitPrefix(s) ==
  IF s # <<>> /\ DigitVal(Head(s)) >= 0
  THEN <<Head(s)>> \o DigitPrefix(Tail(s))
  ELSE <<>>

RECURSIVE DigitsValue(_)
\* Number written by a sequence of decimal digits.
DigitsValue(s) ==
  IF s = <<>> THEN 0
  ELSE 10 * DigitsValue(SubSeq(s, 1, Len(s) - 1)) + DigitVal(s[Len(s)])

\* parseFloat on the modelled strings (unsigned integers and junk): the
\* longest numeric prefix is converted, no numeric prefix gives NaN.
ParseFloat(s) ==
  LET p == DigitPrefix(TrimStart(s))
  IN  IF p = <<>> THEN [nan |-> TRUE, val |-> 0]
      ELSE [nan |-> FALSE, val |-> DigitsValue(p)]

\* ------------------------------------------------------- source documents
Loc(name, lat, lng, img, related) ==
  [name |-> name, lat |-> lat, lng |-> lng, img |-> img, relatedItems |-> related]

\* categories.json: two categories, three well-formed locations.
DocMain ==
  << [key |-> "Labs", color |-> "red",
      locations |-> << Loc(<<"A", "b">>, <<"1">>, <<"2">>, "u1", <<>>),
                       Loc(<<"b", "z">>, <<"2">>, <<"1">>, "u2",
                           << <<"a", "B">>, <<"Z">> >>) >>],
     [key |-> "Shops", color |-> "blue",
      locations |-> << Loc(<<"B">>, <<"3">>, <<"3">>, "", << <<"Z", "a">> >>) >>] >>

\* alt.json: another well-formed document.
DocAlt ==
  << [key |-> "Docks", color |-> "green",
      locations |-> << Loc(<<"a">>, <<"4">>, <<"4">>, "u1", <<>>),
                       Loc(<<"Z", "b">>, <<"5">>, <<"1", "0">>, "", <<>>) >>] >>

\* bad.json: the second location of the first category has lat "abc".
DocBad ==
  << [key |-> "Labs", color |-> "red",
      locations |-> << Loc(<<"a">>, <<"1">>, <<"1">>, "", <<>>),
                       Loc(<<"b">>, <<"a", "b", "c">>, <<"2">>, "", <<>>),
                       Loc(<<"a", "b">>, <<"3">>, <<"3">>, "", <<>>) >>],
     [key |-> "Shops", color |-> "blue",
      locations |-> << Loc(<<"z">>, <<"4">>, <<"4">>, "", <<>>) >>] >>

\* The decimal digit d as a character.
DigitChar(d) == <<"0", "1", "2", "3", "4", "5", "6", "7", "8", "9">>[d + 1]

RECURSIVE NatDigits(_)
\* The decimal digits of a natural number, most significant first.
NatDigits(n) ==
  IF n < 10 THEN <<DigitChar(n)>>
  ELSE NatDigits(n \div 10) \o <<DigitChar(n % 10)>>

\* big.json: two categories of BigLocations locations each. For the query
\* "a" the first location matches by a related item only, the second does
\* not match, every other one matches by name: more than 25 matches.
DocBig ==
  << [key |-> "Big", color |-> "red",
      locations |->
        [li \in 1..BigLocations |->
           CASE li = 1 -> Loc(<<"z">>, <<"1">>, <<"1">>, "", << <<"x">>, <<"A">> >>)
             [] li = 2 -> Loc(<<"b">>, <<"2">>, <<"2">>, "", <<>>)
             [] OTHER  -> Loc(<<"a">>, NatDigits(li), <<"1">>, "", <<>>)]],
     [key |-> "More", color |-> "blue",
      locations |->
        [li \in 1..BigLocations |->
           Loc(<<"A", "b">>, NatDigits(li), <<"2">>, "", <<>>)]] >>

\* gallery.json: one category of seven locations with images; the seventh
\* image is the only one of its url.
DocGallery ==
  << [key |-> "Gallery", color |-> "red",
      locations |->
        [li \in 1..7 |->
           Loc(<<"g">>, NatDigits(li), <<"1">>,
               IF li = 7 THEN "u3" ELSE IF li % 2 = 1 THEN "u1" ELSE "u2", <<>>)]] >>

\* The files a loadData call may name.
Files == {"categories.json", "alt.json", "bad.json", "missing.json", "broken.json"}

\* What fetch(fileName) resolves with: the transport status (response.ok)
\* and whether response.json() can parse the body, and to what.
Response(f) ==
  CASE f = "categories.json" -> [ok |-> TRUE,  parseable |-> TRUE,  body |-> DocMain]
    [] f = "alt.json"        -> [ok |-> TRUE,  parseable |-> TRUE,  body |-> DocAlt]
    [] f = "bad.json"        -> [ok |-> TRUE,  parseable |-> TRUE,  body |-> DocBad]
    [] f = "gallery.json"    -> [ok |-> TRUE,  parseable |-> TRUE,  body |-> DocGallery]
    [] f = "big.json"        -> [ok |-> TRUE,  parseable |-> TRUE,  body |-> DocBig]
    [] f = "missing.json"    -> [ok |-> FALSE, parseable |-> TRUE,  body |-> DocAlt]
    [] OTHER                 -> [ok |-> TRUE,  parseable |-> FALSE, body |-> <<>>]

\* The image URLs the documents name.
Urls == {"u1", "u2", "u3"}

\* The raw values typed into the search box.
Queries ==
  { <<>>, <<" ">>, <<"a">>, <<"B">>, <<"b", " ">>, <<"a", "b">>, <<"z", "z">> }

\* ------------------------------------------------------------------ state
VARIABLES
  calls,          \* loadData calls so far: [file, state], state pending/done/failed
  categories,     \* the Data Model: id of the call whose parsed data it is, 0 for {}
  markers,        \* marker handles created by loadCategories: [call, ci, li]
  markersGroup,   \* marker handles attached to the map surface
  sidebar,        \* accordion entries of locations-list-inner: [call, ci, open]
  searchValue,    \* searchInput.value
  searchShown,    \* searchResults.style.display = "block"
  searchResults,  \* entries of the search-results panel
  matches,        \* the matches array of the last run of the search handler
  lastOp,         \* the handler of the data, search, selection and focus flows
                  \* that ran last
  currentHighlightedMarker, \* the highlight state: a marker handle, 0 for null
  highlighted,    \* marker handles whose element carries the class "highlighted"
  selected,       \* the argument of the last highlightMarker call, 0 before any
  previous,       \* currentHighlightedMarker as that call found it
  sidePopup,      \* the detail panel: shown, location, image slot, image src
  imageLoadCache, \* url -> index of the memoized Promise, 0 when not cached
  promises,       \* the Promises loadImage created: [url, state]
  subs,           \* then/catch callbacks showSidePopup attached: [p, live]
  warmTasks,      \* warmCache runs: [queue, awaiting], awaiting 0 when scheduled
  view,           \* the map view: centre, zoom (tenths), offset pans applied
                  \* (fitBounds on [0,0]..[1000,1000] and setZoom(1) at startup)
  timers,         \* pending focusLocation timeouts, oldest first: <<call, ci, li>>
  focusArgs,      \* the arguments of the last focusLocation call: [loc, options]
  warmLog,        \* the warmCache calls the last warm-up step brought to an end
  drafts,         \* draft markers made by createMarkerWithPopup, in creation order
  openPopup,      \* the draft whose popup is open on the map, 0 for none
  createMarkerMode, \* the flag the create-marker button sets
  clipboard,      \* the texts navigator.clipboard has taken, oldest first
  wires,          \* pending 10 ms timeouts of "popupopen", oldest first: draft ids
  writes,         \* pending navigator.clipboard.writeText calls: [d, data]
  leaflet,        \* the Leaflet build the page runs on: [update, fade]
  fading,         \* closed popups whose form is still in the document, oldest
                  \* first: [d, opens, wait]
  removals        \* pending 1500 ms timeouts of the copy listeners, oldest
                  \* first: draft ids

vars == <<calls, categories, markers, markersGroup, sidebar,
          searchValue, searchShown, searchResults, matches, lastOp,
          currentHighlightedMarker, highlighted, selected, previous, sidePopup,
          imageLoadCache, promises, subs, warmTasks, view, timers,
          focusArgs, warmLog, drafts, openPopup, createMarkerMode, clipboard,
          wires, writes, leaflet, fading, removals>>

\* What the page does not fix about Leaflet, which it takes as the global L.
\* update: marker.openPopup() on a popup that is open renders its content
\* again (Leaflet 1.8 and later; 1.7 and earlier leave the popup as it is).
\* fade: a closed popup stays in the document for 200 ms, fading out (the
\* fadeAnimation default, where the browser has 3D transforms), or is taken
\* out at once.
LeafletBuilds == [update : BOOLEAN, fade : BOOLEAN]

\* Groups of variables an action leaves alone.
dataVars   == <<calls, categories, markers, sidebar>>
searchVars == <<searchValue, searchShown, searchResults, matches>>
selectVars == <<currentHighlightedMarker, selected, previous>>
imageVars  == <<imageLoadCache, promises, subs, warmTasks>>
authorVars == <<drafts, openPopup, createMarkerMode, clipboard, wires, writes,
                leaflet, fading, removals>>

\* ------------------------------------------------------------ Data Model
\* The object response.json() produced for call c.
DataOf(c) == Response(calls[c].file).body

\* Locations of a document in iteration order (for..in over the categories,
\* forEach over each category's locations), as <<ci, li>> pairs.
RECURSIVE LocsFrom(_, _)
LocsFrom(doc, ci) ==
  IF ci > Len(doc) THEN <<>>
  ELSE [li \in 1..Len(doc[ci].locations) |-> <<ci, li>>] \o LocsFrom(doc, ci + 1)

LocsOf(doc) == LocsFrom(doc, 1)

\* location.marker: the handle loadCategories stored on the location.
HasMarker(c, ci, li) ==
  \E m \in 1..Len(markers) : markers[m] = [call |-> c, ci |-> ci, li |-> li]

MarkerOf(c, ci, li) ==
  CHOOSE m \in 1..Len(markers) : markers[m] = [call |-> c, ci |-> ci, li |-> li]

\* Marker handles referenced by the locations of the current Data Model.
ModelMarkers == {m \in 1..Len(markers) : markers[m].call = categories}

Init ==
  /\ calls = <<>>
  /\ categories = 0
  /\ markers = <<>>
  /\ markersGroup = {}
  /\ sidebar = <<>>
  /\ searchValue = <<>>
  /\ searchShown = FALSE
  /\ searchResults = <<>>
  /\ matches = <<>>
  /\ lastOp = "init"
  /\ currentHighlightedMarker = 0
  /\ highlighted = {}
  /\ selected = 0
  /\ previous = 0
  /\ sidePopup = [shown |-> FALSE, loc |-> <<>>, slot |-> "empty", src |-> ""]
  /\ imageLoadCache = [u \in Urls |-> 0]
  /\ promises = <<>>
  /\ subs = {}
  /\ warmTasks = <<>>
  /\ view = [lat |-> 500, lng |-> 500, zoom |-> 10, pan |-> 0]
  /\ timers = <<>>
  /\ focusArgs = [loc |-> <<>>, options |-> [has |-> FALSE, zoom |-> 0]]
  /\ warmLog = {}
  /\ drafts = <<>>
  /\ openPopup = 0
  /\ createMarkerMode = FALSE
  /\ clipboard = <<>>
  /\ wires = <<>>
  /\ writes = <<>>
  /\ leaflet \in LeafletBuilds
  /\ fading = <<>>
  /\ removals = <<>>

\* The page on a current Leaflet with its defaults. Sessions without drafts,
\* in which no popup is ever bound, start here.
InitPlain == Init /\ leaflet = [update |-> TRUE, fade |-> TRUE]

\* ----------------------------------------------------------- map surface
\* A marker's icon element exists only while the marker is on the map:
\* Leaflet drops it when the layer is removed (removeLayer, clearLayers) and
\* builds a new one, without the class, when the layer is added again. So
\* marker.getElement() is null for a detached marker, and a detached marker
\* carries no emphasis.
DetachEmphasis(hl, detached) == hl \ detached

\* ---------------------------------------------------------------- loading
\* loadData(fileName): clears the marker layer and the sidebar, starts the fetch.
LoadData(f) ==
  /\ Len(calls) < MaxLoads
  /\ calls' = Append(calls, [file |-> f, state |-> "pending"])
  /\ markersGroup' = {}
  /\ sidebar' = <<>>
  /\ lastOp' = "loadData"
  /\ highlighted' = DetachEmphasis(highlighted, markersGroup)
  /\ UNCHANGED <<focusArgs, warmLog, authorVars>>
  /\ UNCHANGED <<categories, markers, searchVars, selectVars, sidePopup,
                 imageVars, view, timers>>

\* The DOMContentLoaded handler: dataSource = "categories.json" and
\* loadData(dataSource), once, at startup.
DOMContentLoaded ==
  /\ calls = <<>>
  /\ LoadData("categories.json")

\* Mutant of ResponseAccepted: the status check is dropped, only json() guards.
ResponseAcceptedNoStatusCheck(r) == r.parseable

\* The two steps that guard the data handler: a response that is not ok
\* throws, and response.json() rejects on an unparseable payload.
ResponseAccepted(r) == r.ok /\ r.parseable

\* L.marker([parseFloat(lat), parseFloat(lng)]) throws "Invalid LatLng object"
\* when either coordinate is NaN.
MarkerThrows(loc) == ParseFloat(loc.lat).nan \/ ParseFloat(loc.lng).nan

RECURSIVE PlacedPrefix(_, _)
\* The locations loadCategories gets through before L.marker throws:
\* the locations that precede the first one with an unparseable coordinate.
PlacedPrefix(doc, locs) ==
  IF locs = <<>> THEN <<>>
  ELSE LET l == Head(locs)
       IN  IF MarkerThrows(doc[l[1]].locations[l[2]]) THEN <<>>
           ELSE <<l>> \o PlacedPrefix(doc, Tail(locs))

\* The settlement of the fetch started by call c, with the whole promise
\* chain: status check, json(), categories = data, loadCategories, catch.
FetchComplete(c) ==
  /\ calls[c].state = "pending"
  /\ lastOp' = "fetch"
  /\ UNCHANGED <<focusArgs, warmLog, authorVars>>
  /\ UNCHANGED <<searchVars, selectVars, highlighted, sidePopup, imageVars,
                 view, timers>>
  /\ LET r == Response(calls[c].file)
     IN  IF ~ResponseAccepted(r)
         THEN /\ calls' = [calls EXCEPT ![c].state = "failed"]
              /\ UNCHANGED <<categories, markers, markersGroup, sidebar>>
         ELSE LET doc     == r.body
                  placed  == PlacedPrefix(doc, LocsOf(doc))
                  aborted == Len(placed) < Len(LocsOf(doc))
                  fresh   == [i \in 1..Len(placed) |->
                                [call |-> c, ci |-> placed[i][1], li |-> placed[i][2]]]
              IN  /\ categories' = c
                  /\ markers' = markers \o fresh
                  /\ markersGroup' =
                       markersGroup \cup ((Len(markers) + 1)..(Len(markers) + Len(fresh)))
                  /\ sidebar' =
                       IF aborted THEN sidebar
                       ELSE sidebar \o
                            [ci \in 1..Len(doc) |-> [call |-> c, ci |-> ci, open |-> FALSE]]
                  /\ calls' = [calls EXCEPT ![c].state =
                                 IF aborted THEN "failed" ELSE "done"]

\* ----------------------------------------------------------------- search
\* The document the global categories currently holds ({} before any load).
CurrentDoc == IF categories = 0 THEN <<>> ELSE DataOf(categories)

RECURSIVE FilterItemsCaseSensitive(_, _)
\* Mutant of FilterItems: the items are compared without toLowerCase().
FilterItemsCaseSensitive(items, query) ==
  IF items = <<>> THEN <<>>
  ELSE (IF Includes(Head(items), query) THEN <<Head(items)>> ELSE <<>>)
       \o FilterItemsCaseSensitive(Tail(items), query)

RECURSIVE FilterItems(_, _)
\* location.relatedItems.filter(item => item.toLowerCase().includes(query))
FilterItems(items, query) ==
  IF items = <<>> THEN <<>>
  ELSE (IF Includes(ToLowerCase(Head(items)), query) THEN <<Head(items)>> ELSE <<>>)
       \o FilterItems(Tail(items), query)

\* Mutant of NameMatches: the name is compared without toLowerCase().
NameMatchesCaseSensitive(loc, query) ==
  loc.name # <<>> /\ Includes(loc.name, query)

\* nameMatches: location.name && location.name.toLowerCase().includes(query)
NameMatches(loc, query) ==
  loc.name # <<>> /\ Includes(ToLowerCase(loc.name), query)

RECURSIVE MatchesFrom(_, _, _)
\* The matches array: one entry per location whose name or related items
\* match, in iteration order.
MatchesFrom(doc, locs, query) ==
  IF locs = <<>> THEN <<>>
  ELSE LET l       == Head(locs)
           loc     == doc[l[1]].locations[l[2]]
           related == FilterItems(loc.relatedItems, query)
       IN  (IF NameMatches(loc, query) \/ Len(related) > 0
            THEN << [call |-> categories, ci |-> l[1], li |-> l[2],
                     matchedRelatedItems |-> related] >>
            ELSE <<>>)
           \o MatchesFrom(doc, Tail(locs), query)

\* Mutant of ComputeMatches: each match is put in front of the earlier ones.
ComputeMatchesNewestFirst(query) ==
  LET ms == MatchesFrom(CurrentDoc, LocsOf(CurrentDoc), query)
  IN  [i \in 1..Len(ms) |-> ms[Len(ms) + 1 - i]]

\* The loops of the search handler over the categories and their locations.
ComputeMatches(query) == MatchesFrom(CurrentDoc, LocsOf(CurrentDoc), query)

\* const query = searchInput.value.trim().toLowerCase()
NormalizeQuery(v) == ToLowerCase(Trim(v))

\* Markers of the matched locations that carry a marker handle.
MatchedMarkers(ms) ==
  {MarkerOf(ms[i].call, ms[i].ci, ms[i].li) :
     i \in {j \in 1..Len(ms) : HasMarker(ms[j].call, ms[j].ci, ms[j].li)}}

\* Mutant of ShowAll: the empty query hides the panel and re-attaches nothing.
ShowAllNoRestore(group) == group

\* "Show all markers": addLayer for every location of the Data Model that
\* carries a marker handle.
ShowAll(group) == group \cup ModelMarkers

\* Mutant of HideAll: the markers are not detached before the matches are shown.
HideNone(group) == group

\* "Hide all markers first": removeLayer for every location of the Data
\* Model that carries a marker handle.
HideAll(group) == group \ ModelMarkers

\* Mutant of ShowMatched: only the matches listed in the panel are shown.
ShowMatchedListedOnly(group, ms) ==
  group \cup MatchedMarkers(SubSeq(ms, 1, IF Len(ms) < MaxResults THEN Len(ms)
                                         ELSE MaxResults))

\* "Show only matched markers": addLayer for every match with a handle.
ShowMatched(group, ms) == group \cup MatchedMarkers(ms)

\* matches.slice(0, 25)
Slice25(ms) == SubSeq(ms, 1, IF Len(ms) < MaxResults THEN Len(ms) ELSE MaxResults)

\* The "input" handler of the search box, run with the box holding v.
SearchInput(v) ==
  /\ searchValue' = v
  /\ lastOp' = "search"
  /\ UNCHANGED <<focusArgs, warmLog, authorVars>>
  /\ UNCHANGED <<dataVars, selectVars, sidePopup, imageVars, view, timers>>
  /\ LET query == NormalizeQuery(v)
     IN  IF query = <<>>
         THEN /\ searchShown' = FALSE
              /\ searchResults' = <<>>
              /\ matches' = <<>>
              /\ markersGroup' = ShowAll(markersGroup)
              /\ highlighted' = highlighted
         ELSE LET ms == ComputeMatches(query)
              IN  /\ matches' = ms
                  /\ markersGroup' = ShowMatched(HideAll(markersGroup), ms)
                  /\ highlighted' =
                       DetachEmphasis(highlighted, markersGroup \ HideAll(markersGroup))
                  /\ searchShown' = (ms # <<>>)
                  /\ searchResults' = Slice25(ms)

\* ------------------------------------------------------------ image cache
\* Mutant of CacheHas: the memo is never consulted.
CacheHasNever(cache, url) == FALSE

\* imageLoadCache.has(url)
CacheHas(cache, url) == cache[url] # 0

\* Mutant of LoadImage: a rejected Promise does not count as memoized, the
\* image is fetched again.
LoadImageRetryFailed(cache, proms, url) ==
  IF cache[url] # 0 /\ proms[cache[url]].state # "rejected"
  THEN [cache |-> cache, promises |-> proms, p |-> cache[url]]
  ELSE [cache    |-> [cache EXCEPT ![url] = Len(proms) + 1],
        promises |-> Append(proms, [url |-> url, state |-> "pending"]),
        p        |-> Len(proms) + 1]

\* loadImage(url): the memoized Promise, or a new pending one that is put
\* in the cache. Gives the cache, the Promises and the Promise returned.
LoadImage(cache, proms, url) ==
  IF CacheHas(cache, url)
  THEN [cache |-> cache, promises |-> proms, p |-> cache[url]]
  ELSE [cache    |-> [cache EXCEPT ![url] = Len(proms) + 1],
        promises |-> Append(proms, [url |-> url, state |-> "pending"]),
        p        |-> Len(proms) + 1]

\* -------------------------------------------------------------- highlight
\* Mutant of ClearPrevious: the previous marker keeps the class.
ClearPreviousNever(hl, cur, m) == hl

\* The first half of highlightMarker: the class is removed from the element
\* of the previously highlighted marker when that is a different marker.
ClearPrevious(hl, cur, m) ==
  IF cur # 0 /\ cur # m THEN hl \ {cur} ELSE hl

\* highlightMarker(marker) on the highlight state: gives the new
\* currentHighlightedMarker and the new set of emphasised handles. The class
\* is added only when the marker has an element, that is when it is attached.
HighlightMarker(m) ==
  [cur |-> m,
   hl  |-> IF m \in markersGroup
           THEN ClearPrevious(highlighted, currentHighlightedMarker, m) \cup {m}
           ELSE ClearPrevious(highlighted, currentHighlightedMarker, m)]

\* ----------------------------------------------------------- detail panel
\* The location object a reference <<call, ci, li>> stands for.
LocationAt(l) == DataOf(l[1])[l[2]].locations[l[3]]

\* Mutant of ShowSidePopup: the callbacks of earlier renderings act on the
\* panel as it is when they run (elements looked up at completion time).
ShowSidePopupSharedSlot(l) ==
  LET loc == LocationAt(l)
  IN  IF loc.img = ""
      THEN [cache |-> imageLoadCache, promises |-> promises, subs |-> subs,
            popup |-> [shown |-> TRUE, loc |-> l, slot |-> "none", src |-> ""]]
      ELSE LET r  == LoadImage(imageLoadCache, promises, loc.img)
               st == r.promises[r.p].state
           IN  [cache    |-> r.cache,
                promises |-> r.promises,
                subs     |-> IF st = "pending"
                             THEN subs \cup {[p |-> r.p, live |-> TRUE]}
                             ELSE subs,
                popup    |-> [shown |-> TRUE, loc |-> l,
                              slot  |-> CASE st = "pending"  -> "loading"
                                          [] st = "resolved" -> "image"
                                          [] OTHER           -> "failed",
                              src   |-> IF st = "resolved" THEN loc.img ELSE ""]]

\* showSidePopup(location): the panel is rebuilt (the callbacks of earlier
\* renderings keep elements that are no longer in the panel), shown, and the
\* image slot is filled from loadImage. A callback on a settled Promise runs
\* in the microtask that follows, before any other event.
ShowSidePopup(l) ==
  LET loc   == LocationAt(l)
      stale == {[p |-> s.p, live |-> FALSE] : s \in subs}
  IN  IF loc.img = ""
      THEN [cache |-> imageLoadCache, promises |-> promises, subs |-> stale,
            popup |-> [shown |-> TRUE, loc |-> l, slot |-> "none", src |-> ""]]
      ELSE LET r  == LoadImage(imageLoadCache, promises, loc.img)
               st == r.promises[r.p].state
           IN  [cache    |-> r.cache,
                promises |-> r.promises,
                subs     |-> IF st = "pending"
                             THEN stale \cup {[p |-> r.p, live |-> TRUE]}
                             ELSE stale,
                popup    |-> [shown |-> TRUE, loc |-> l,
                              slot  |-> CASE st = "pending"  -> "loading"
                                          [] st = "resolved" -> "image"
                                          [] OTHER           -> "failed",
                              src   |-> IF st = "resolved" THEN loc.img ELSE ""]]

\* Mutant of MapRemoveLayer: every marker is taken off the map.
MapRemoveLayerAll(group, h) == {}

\* map.removeLayer(layer) as the marker layer sees it: the handle h is
\* detached. Draft markers carry the handles -1, -2, ...
MapRemoveLayer(group, h) == group \ {h}

\* The draft d once its form has left the document: what was typed, the
\* rows and the listeners on the buttons are gone with it.
NoForm(d) ==
  [d EXCEPT !.name = "", !.img = "", !.info = "", !.rows = <<>>,
            !.listeners = <<>>]

\* The open popup of draft d closes: the "popupclose" handler runs
\* map.removeLayer(marker). With the fade the container of a popup that
\* holds the form stays in the document, as it is, until its 200 ms timeout;
\* otherwise the form is gone with the popup.
PopupClosed(ds, d, by) ==
  LET off == [ds[d] EXCEPT !.onMap = FALSE,
                           !.removedBy = IF ds[d].onMap THEN by ELSE @]
  IN  [ds EXCEPT ![d] = IF leaflet.fade /\ ds[d].content = "form"
                        THEN off ELSE NoForm(off)]

\* The drafts once the popup that is open (if any) has been closed.
CloseOpenPopup(ds) ==
  IF openPopup = 0 THEN ds ELSE PopupClosed(ds, openPopup, "popupclose")

\* The marker layer once the popup that is open (if any) has been closed.
GroupAfterClose(group) ==
  IF openPopup = 0 THEN group ELSE MapRemoveLayer(group, 0 - openPopup)

\* The fading popups once the popup that is open (if any) has been closed,
\* ds and ws being the drafts and the 10 ms timeouts after the step. With the
\* fade, a closed popup that holds the form stays in the document until its
\* 200 ms timeout fires, ahead of every popup opened after it. The timeouts
\* then pending are due earlier and fire first: the 50 ms timeouts of the
\* drafts in opens and the wait 10 ms timeouts at the head of wires. A 10 ms
\* timeout that is set after the close fires before or after the 200 ms
\* timeout: a 50 ms timeout that runs late sets it that much later.
FadingAfterClose(fs, ds, ws) ==
  IF openPopup # 0 /\ leaflet.fade /\ drafts[openPopup].content = "form"
  THEN Append(fs, [d     |-> openPopup,
                   opens |-> {e \in 1..Len(ds) : ds[e].opening},
                   wait  |-> Len(ws)])
  ELSE fs

\* The fading popups once the 50 ms timeout of draft d has fired.
OpenFired(fs, d) ==
  [k \in 1..Len(fs) |-> [fs[k] EXCEPT !.opens = @ \ {d}]]

\* The fading popups once the 10 ms timeout at the head of wires has fired.
WireFired(fs) ==
  [k \in 1..Len(fs) |->
     [fs[k] EXCEPT !.wait = IF @ > 0 THEN @ - 1 ELSE 0]]

\* A click on a placed marker. Leaflet sends "preclick" to the map first,
\* which closes the popup that is open (closePopupOnClick) and so removes
\* that draft; then the click handler runs: highlightMarker(this),
\* showSidePopup(location). Only an attached marker can be clicked.
ClickMarker(m) ==
  /\ m \in markersGroup
  /\ LET h == HighlightMarker(m)
         r == ShowSidePopup(<<markers[m].call, markers[m].ci, markers[m].li>>)
     IN  /\ Len(r.promises) <= MaxPromises
         /\ currentHighlightedMarker' = h.cur
         /\ highlighted' = h.hl
         /\ selected' = m
         /\ previous' = currentHighlightedMarker
         /\ imageLoadCache' = r.cache
         /\ promises' = r.promises
         /\ subs' = r.subs
         /\ sidePopup' = r.popup
  /\ drafts' = CloseOpenPopup(drafts)
  /\ markersGroup' = GroupAfterClose(markersGroup)
  /\ openPopup' = 0
  /\ fading' = FadingAfterClose(fading, drafts', wires)
  /\ lastOp' = "click"
  /\ UNCHANGED <<createMarkerMode, clipboard, wires, writes, leaflet, removals>>
  /\ UNCHANGED <<focusArgs, warmLog>>
  /\ UNCHANGED <<dataVars, searchVars, warmTasks, view, timers>>

\* The click handler of side-popup-close: the panel is hidden, its content
\* stays in the document.
SidePopupClose ==
  /\ sidePopup.shown
  /\ sidePopup' = [sidePopup EXCEPT !.shown = FALSE]
  /\ lastOp' = "sidePopupClose"
  /\ UNCHANGED <<focusArgs, warmLog, authorVars>>
  /\ UNCHANGED <<dataVars, markersGroup, searchVars, selectVars, highlighted,
                 imageVars, view, timers>>

\* --------------------------------------------------------------- warming
RECURSIVE FilterUncached(_, _)
\* urls.filter((u) => !imageLoadCache.has(u))
FilterUncached(urls, cache) ==
  IF urls = <<>> THEN <<>>
  ELSE (IF CacheHas(cache, Head(urls)) THEN <<>> ELSE <<Head(urls)>>)
       \o FilterUncached(Tail(urls), cache)

\* Mutant of ToWarm: the cached urls are dropped before the first limit
\* candidates are taken.
ToWarmFilterFirst(urls, limit) ==
  LET fresh == FilterUncached(urls, imageLoadCache)
  IN  SubSeq(fresh, 1, IF Len(fresh) < limit THEN Len(fresh) ELSE limit)

\* toWarm = urls.slice(0, limit).filter((u) => !imageLoadCache.has(u))
ToWarm(urls, limit) ==
  FilterUncached(SubSeq(urls, 1, IF Len(urls) < limit THEN Len(urls) ELSE limit),
                 imageLoadCache)

RECURSIVE ImageUrlsFrom(_)
\* categoryImageUrls: the img of every location of the category that has one.
ImageUrlsFrom(locs) ==
  IF locs = <<>> THEN <<>>
  ELSE (IF Head(locs).img # "" THEN <<Head(locs).img>> ELSE <<>>)
       \o ImageUrlsFrom(Tail(locs))

RECURSIVE WarmLoopNoCatch(_, _, _)
\* Mutant of WarmLoop: no try/catch around the await, a rejected image ends
\* the run with the rest of its urls not loaded.
WarmLoopNoCatch(queue, cache, proms) ==
  IF queue = <<>>
  THEN [cache |-> cache, promises |-> proms, queue |-> <<>>, awaiting |-> 0]
  ELSE LET r == LoadImage(cache, proms, Head(queue))
       IN  CASE r.promises[r.p].state = "pending" ->
                  [cache |-> r.cache, promises |-> r.promises,
                   queue |-> Tail(queue), awaiting |-> r.p]
             [] r.promises[r.p].state = "rejected" ->
                  [cache |-> r.cache, promises |-> r.promises,
                   queue |-> Tail(queue), awaiting |-> 0]
             [] OTHER -> WarmLoopNoCatch(Tail(queue), r.cache, r.promises)

RECURSIVE WarmLoop(_, _, _)
\* The async loop of warmCache from its next url on: loadImage and await,
\* failures swallowed. It goes on through settled Promises and suspends at
\* the first pending one; awaiting 0 and an empty queue mean it has ended.
WarmLoop(queue, cache, proms) ==
  IF queue = <<>>
  THEN [cache |-> cache, promises |-> proms, queue |-> <<>>, awaiting |-> 0]
  ELSE LET r == LoadImage(cache, proms, Head(queue))
       IN  IF r.promises[r.p].state = "pending"
           THEN [cache |-> r.cache, promises |-> r.promises,
                 queue |-> Tail(queue), awaiting |-> r.p]
           ELSE WarmLoop(Tail(queue), r.cache, r.promises)

\* A warm-up run as warmCache schedules it: the urls to load and the Promise
\* awaited (0 until it runs), with a record of the call: its arguments, the
\* urls cached when it was made, the urls handed to loadImage so far.
WarmTask(queue, urls, limit) ==
  [queue |-> queue, awaiting |-> 0, urls |-> urls, limit |-> limit,
   cached |-> {u \in Urls : imageLoadCache[u] # 0}, loaded |-> <<>>]

\* The run t after its loop went on to the state w: the urls taken from the
\* queue are those loadImage was called with.
Advance(t, w) ==
  [t EXCEPT !.queue = w.queue, !.awaiting = w.awaiting,
            !.loaded = @ \o SubSeq(t.queue, 1, Len(t.queue) - Len(w.queue))]

\* The record of a call whose run has ended.
Ended(t) == [urls |-> t.urls, limit |-> t.limit, cached |-> t.cached,
             loaded |-> t.loaded]

RECURSIVE ResumeWarm(_, _, _, _)
\* The warm-up runs that await Promise p go on, in order, once it has
\* settled; a run that reaches its end is dropped.
ResumeWarm(tasks, cache, proms, p) ==
  IF tasks = <<>>
  THEN [cache |-> cache, promises |-> proms, tasks |-> <<>>, ended |-> {}]
  ELSE LET t == Head(tasks)
       IN  IF t.awaiting # p
           THEN LET rest == ResumeWarm(Tail(tasks), cache, proms, p)
                IN  [rest EXCEPT !.tasks = <<t>> \o @]
           ELSE LET w    == WarmLoop(t.queue, cache, proms)
                    rest == ResumeWarm(Tail(tasks), w.cache, w.promises, p)
                IN  IF w.awaiting = 0
                    THEN [rest EXCEPT !.ended = @ \cup {Ended(Advance(t, w))}]
                    ELSE [rest EXCEPT !.tasks = <<Advance(t, w)>> \o @]

\* warmCache(urls, limit): nothing when every candidate is cached, otherwise
\* the run is handed to requestIdleCallback / setTimeout and warmCache
\* returns. Gives the runs and the calls that ended at once.
WarmCache(urls, limit) ==
  IF ToWarm(urls, limit) = <<>>
  THEN [tasks |-> warmTasks, ended |-> {Ended(WarmTask(<<>>, urls, limit))}]
  ELSE [tasks |-> Append(warmTasks, WarmTask(ToWarm(urls, limit), urls, limit)),
        ended |-> {}]

\* The click handler of a category's accordion button: the panel is toggled
\* and, when it opens and the category has images, warmCache(urls, 6).
AccordionClick(k) ==
  /\ k \in 1..Len(sidebar)
  /\ Len(warmTasks) < MaxWarm
  /\ LET e        == sidebar[k]
         willOpen == ~e.open
         urls     == ImageUrlsFrom(DataOf(e.call)[e.ci].locations)
     IN  /\ sidebar' = [sidebar EXCEPT ![k].open = willOpen]
         /\ warmTasks' = IF willOpen /\ urls # <<>>
                         THEN WarmCache(urls, AccordionWarmLimit).tasks
                         ELSE warmTasks
         /\ warmLog' = IF willOpen /\ urls # <<>>
                       THEN WarmCache(urls, AccordionWarmLimit).ended
                       ELSE {}
  /\ lastOp' = "accordion"
  /\ UNCHANGED <<focusArgs, authorVars>>
  /\ UNCHANGED <<calls, categories, markers, markersGroup, searchVars, selectVars,
                 highlighted, sidePopup, imageLoadCache, promises, subs, view, timers>>

\* The calls of warmCache made directly: candidate lists over the urls and
\* limits, DefaultWarmLimit standing for a call without a limit.
WarmRequests ==
  { [urls |-> <<"u1", "u2", "u3">>, limit |-> 2],
    [urls |-> <<"u3", "u1">>,       limit |-> 1],
    [urls |-> <<"u1", "u2">>,       limit |-> 0],
    [urls |-> <<"u2">>,             limit |-> DefaultWarmLimit] }

\* A call of warmCache by any caller.
WarmCall(urls, limit) ==
  /\ Len(warmTasks) < MaxWarm
  /\ warmTasks' = WarmCache(urls, limit).tasks
  /\ warmLog' = WarmCache(urls, limit).ended
  /\ lastOp' = "warmCall"
  /\ UNCHANGED <<focusArgs, authorVars>>
  /\ UNCHANGED <<dataVars, markersGroup, searchVars, selectVars, highlighted,
                 sidePopup, imageLoadCache, promises, subs, view, timers>>

\* The idle callback (or timeout) of a scheduled warm-up run: the async loop
\* starts and suspends at its first pending image.
WarmRun(t) ==
  /\ t \in 1..Len(warmTasks)
  /\ warmTasks[t].awaiting = 0
  /\ LET w == WarmLoop(warmTasks[t].queue, imageLoadCache, promises)
     IN  /\ Len(w.promises) <= MaxPromises
         /\ imageLoadCache' = w.cache
         /\ promises' = w.promises
         /\ warmTasks' =
              IF w.awaiting = 0
              THEN SubSeq(warmTasks, 1, t - 1) \o SubSeq(warmTasks, t + 1, Len(warmTasks))
              ELSE [warmTasks EXCEPT ![t] = Advance(@, w)]
         /\ warmLog' = IF w.awaiting = 0 THEN {Ended(Advance(warmTasks[t], w))}
                       ELSE {}
  /\ lastOp' = "warm"
  /\ UNCHANGED <<focusArgs, authorVars>>
  /\ UNCHANGED <<dataVars, markersGroup, searchVars, selectVars, highlighted,
                 sidePopup, subs, view, timers>>

\* img.onload / img.onerror of the image behind Promise p: the Promise
\* settles and the callbacks attached to it run; only the callbacks of the
\* current rendering of the panel still hold elements of the panel. The
\* warm-up runs that await it go on with their next url.
ImageSettle(p, ok) ==
  /\ promises[p].state = "pending"
  /\ LET settled == [promises EXCEPT ![p].state = IF ok THEN "resolved" ELSE "rejected"]
         w       == ResumeWarm(warmTasks, imageLoadCache, settled, p)
     IN  /\ Len(w.promises) <= MaxPromises
         /\ promises' = w.promises
         /\ imageLoadCache' = w.cache
         /\ warmTasks' = w.tasks
         /\ warmLog' = w.ended
  /\ subs' = {s \in subs : s.p # p}
  /\ sidePopup' =
       IF [p |-> p, live |-> TRUE] \in subs
       THEN [sidePopup EXCEPT !.slot = IF ok THEN "image" ELSE "failed",
                              !.src  = IF ok THEN promises[p].url ELSE ""]
       ELSE sidePopup
  /\ lastOp' = "image"
  /\ UNCHANGED <<focusArgs, authorVars>>
  /\ UNCHANGED <<dataVars, markersGroup, searchVars, selectVars, highlighted,
                 view, timers>>

\* ------------------------------------------------------------------ focus
\* Mutant of ClampZoom: the requested zoom is not capped at the maximum.
ClampZoomNoUpper(z) == IF z > MapMinZoom THEN z ELSE MapMinZoom

\* Math.min(maxZoom, Math.max(requestedZoom, minZoom))
ClampZoom(z) ==
  LET lo == IF z > MapMinZoom THEN z ELSE MapMinZoom
  IN  IF lo < MapMaxZoom THEN lo ELSE MapMaxZoom

\* Mutant of CoordsUnparseable: the coordinates are not checked.
CoordsUnparseableNever(lat, lng) == FALSE

\* Number.isNaN(lat) || Number.isNaN(lng)
CoordsUnparseable(lat, lng) == lat.nan \/ lng.nan

\* Mutant of FocusLocation: the second phase runs in the call itself, with
\* no timeout.
FocusLocationImmediate(l, options) ==
  /\ Len(timers) < MaxTimers
  /\ focusArgs' = [loc |-> l, options |-> options]
  /\ IF l = <<>> \/ (l # <<>> /\ CoordsUnparseable(ParseFloat(LocationAt(l).lat),
                                                  ParseFloat(LocationAt(l).lng)))
     THEN UNCHANGED <<view, selectVars, highlighted, sidePopup, imageVars>>
     ELSE LET loc == LocationAt(l)
              r   == ShowSidePopup(l)
              h   == HighlightMarker(MarkerOf(l[1], l[2], l[3]))
          IN  /\ Len(r.promises) <= MaxPromises
              /\ view' = [lat  |-> ParseFloat(loc.lat).val,
                          lng  |-> ParseFloat(loc.lng).val,
                          zoom |-> ClampZoom(IF options.has THEN options.zoom
                                             ELSE DefaultZoom),
                          pan  |-> 1]
              /\ IF HasMarker(l[1], l[2], l[3])
                 THEN /\ currentHighlightedMarker' = h.cur
                      /\ highlighted' = h.hl
                      /\ selected' = h.cur
                      /\ previous' = currentHighlightedMarker
                 ELSE UNCHANGED <<selectVars, highlighted>>
              /\ imageLoadCache' = r.cache
              /\ promises' = r.promises
              /\ subs' = r.subs
              /\ sidePopup' = r.popup
              /\ UNCHANGED warmTasks
  /\ lastOp' = "focus"
  /\ UNCHANGED <<timers, warmLog, authorVars>>
  /\ UNCHANGED <<dataVars, markersGroup, searchVars>>

\* focusLocation(location, options): nothing for an absent location (l is
\* <<>>) or unparseable coordinates; otherwise setView at the clamped zoom
\* and a timeout for the second phase. options is [has, zoom]: has is
\* "typeof options.zoom === 'number'". view.zoom is the zoom handed to setView.
FocusLocation(l, options) ==
  /\ Len(timers) < MaxTimers
  /\ focusArgs' = [loc |-> l, options |-> options]
  /\ IF l = <<>>
     THEN UNCHANGED <<view, timers>>
     ELSE LET loc == LocationAt(l)
              lat == ParseFloat(loc.lat)
              lng == ParseFloat(loc.lng)
          IN  IF CoordsUnparseable(lat, lng)
              THEN UNCHANGED <<view, timers>>
              ELSE /\ view' = [lat  |-> lat.val, lng |-> lng.val,
                               zoom |-> ClampZoom(IF options.has THEN options.zoom
                                                  ELSE DefaultZoom),
                               pan  |-> 0]
                   /\ timers' = Append(timers, l)
  /\ lastOp' = "focus"
  /\ UNCHANGED <<warmLog, authorVars>>
  /\ UNCHANGED <<dataVars, markersGroup, searchVars, selectVars, highlighted,
                 sidePopup, imageVars>>

\* The options a caller can hand to focusLocation: none, a zoom that is not
\* of type number (its value is never read), or a number (tenths here).
ZoomOptions ==
  {[has |-> FALSE, zoom |-> 0], [has |-> FALSE, zoom |-> 50]}
    \cup {[has |-> TRUE, zoom |-> z] :
            z \in {9990, MapMaxZoom + 1, MapMaxZoom, SearchResultZoom, 0,
                   MapMinZoom, MapMinZoom - 1, -9990}}

\* The locations focusLocation can be called with: none, or any location of
\* the Data Model.
FocusTargets ==
  {<<>>} \cup {<<categories, LocsOf(CurrentDoc)[i][1], LocsOf(CurrentDoc)[i][2]>> :
                i \in 1..Len(LocsOf(CurrentDoc))}

\* A call of focusLocation by any caller.
FocusCall(l, options) ==
  /\ l \in FocusTargets
  /\ options \in ZoomOptions
  /\ FocusLocation(l, options)

\* listItem.onclick of a sidebar row: focusLocation(location).
ClickListItem(k, li) ==
  /\ k \in 1..Len(sidebar)
  /\ li \in 1..Len(DataOf(sidebar[k].call)[sidebar[k].ci].locations)
  /\ FocusLocation(<<sidebar[k].call, sidebar[k].ci, li>>, [has |-> FALSE, zoom |-> 0])

\* The click handler of a search-result entry:
\* focusLocation(location, { zoom: 2.7 }).
ClickSearchResult(i) ==
  /\ searchShown
  /\ i \in 1..Len(searchResults)
  /\ FocusLocation(<<searchResults[i].call, searchResults[i].ci, searchResults[i].li>>,
                   [has |-> TRUE, zoom |-> SearchResultZoom])

\* The timeout of focusLocation, 350 ms after the call: panBy, then
\* highlightMarker if the location has a marker, then showSidePopup.
FocusTimeout ==
  /\ timers # <<>>
  /\ LET l == Head(timers)
         r == ShowSidePopup(l)
     IN  /\ Len(r.promises) <= MaxPromises
         /\ IF HasMarker(l[1], l[2], l[3])
            THEN LET h == HighlightMarker(MarkerOf(l[1], l[2], l[3]))
                 IN  /\ currentHighlightedMarker' = h.cur
                     /\ highlighted' = h.hl
                     /\ selected' = MarkerOf(l[1], l[2], l[3])
                     /\ previous' = currentHighlightedMarker
            ELSE UNCHANGED <<currentHighlightedMarker, highlighted, selected, previous>>
         /\ imageLoadCache' = r.cache
         /\ promises' = r.promises
         /\ subs' = r.subs
         /\ sidePopup' = r.popup
  /\ timers' = Tail(timers)
  /\ view' = [view EXCEPT !.pan = @ + 1]
  /\ lastOp' = "focusTimeout"
  /\ UNCHANGED <<focusArgs, warmLog, authorVars>>
  /\ UNCHANGED <<dataVars, markersGroup, searchVars, warmTasks>>

\* ---------------------------------------------------------- draft markers
\* Map points, in units of 10^-7 so that the rounding of toFixed(6) shows;
\* none has a 5 as its seventh fractional digit, where the binary value of
\* the number would decide the rounding.
Points ==
  { [lat |-> 123456780, lng |-> -98765430],
    [lat |-> 16,        lng |-> -4],
    [lat |-> 2000000004, lng |-> 70000006] }

\* The points used where only the life of a draft matters: drafts are
\* placed at PlacePoint and dragged between the Spots.
PlacePoint == [lat |-> 123456780, lng |-> -98765430]
Spots == {p \in Points : p.lng < 0}

\* What the user types into marker-name, marker-img and marker-info.
FieldTexts == {"", "Lab"}

\* What the user types into marker-name: nothing, a name, or a space only.
NameTexts == FieldTexts \cup {" "}

\* What the user types into a related-item name (trimmed on export).
ItemTexts == { <<>>, <<" ">>, <<" ", "T">>, <<"K">> }

\* What the user types into a related-item description.
DescTexts == {"", "d"}

\* Values of Date.now() (milliseconds) at a click on the copy button.
Timestamps == {1500, 90000}

\* One row of related-items-container: the two inputs, and whether the
\* onclick of its remove button is set.
EmptyRow == [name |-> <<>>, desc |-> "", armed |-> FALSE]

\* The draft createMarkerWithPopup makes at latlng: the marker is on the
\* map at latlng, the popup with the empty form (one related-item row) is
\* bound and its opening is scheduled (50 ms). listeners are the drafts
\* whose "click" listeners are on the buttons of this draft's form, in the
\* order they were added. record is the markerData the copy listener of this
\* draft built last (<<>> before), write the state of its clipboard writes.
NewDraft(latlng) ==
  [latlng |-> latlng, pos |-> latlng, onMap |-> TRUE, opening |-> TRUE,
   content |-> "form", removedBy |-> "none",
   name |-> "", img |-> "", info |-> "", rows |-> <<EmptyRow>>,
   listeners |-> <<>>,
   record |-> <<>>, write |-> "none", alerted |-> FALSE]

\* createMarkerWithPopup(latlng)
CreateMarkerWithPopup(ds, latlng) == Append(ds, NewDraft(latlng))

\* The click handler of the create-marker button, which the
\* DOMContentLoaded handler wires.
CreateMarkerButton ==
  /\ calls # <<>>
  /\ createMarkerMode' = TRUE
  /\ UNCHANGED <<drafts, openPopup, clipboard, wires, writes, leaflet, fading,
                 removals>>
  /\ UNCHANGED <<lastOp, focusArgs, warmLog>>
  /\ UNCHANGED <<dataVars, markersGroup, searchVars, selectVars, highlighted,
                 sidePopup, imageVars, view, timers>>

\* A click on the map at pt: Leaflet closes the open popup
\* (closePopupOnClick), then the "click" handler places a draft when
\* createMarkerMode is set.
MapClick(pt) ==
  /\ createMarkerMode => Len(drafts) < MaxDrafts
  /\ drafts' = IF createMarkerMode
               THEN CreateMarkerWithPopup(CloseOpenPopup(drafts), pt)
               ELSE CloseOpenPopup(drafts)
  /\ markersGroup' = GroupAfterClose(markersGroup)
  /\ openPopup' = 0
  /\ createMarkerMode' = FALSE
  /\ fading' = FadingAfterClose(fading, drafts', wires)
  /\ UNCHANGED <<clipboard, wires, writes, leaflet, removals>>
  /\ UNCHANGED <<lastOp, focusArgs, warmLog>>
  /\ UNCHANGED <<dataVars, searchVars, selectVars, highlighted,
                 sidePopup, imageVars, view, timers>>

\* The "dblclick" handler of the map: createMarkerWithPopup(e.latlng).
MapDblClick(pt) ==
  /\ Len(drafts) < MaxDrafts
  /\ drafts' = CreateMarkerWithPopup(drafts, pt)
  /\ UNCHANGED <<openPopup, createMarkerMode, clipboard, wires, writes, leaflet,
                 fading, removals>>
  /\ UNCHANGED <<lastOp, focusArgs, warmLog>>
  /\ UNCHANGED <<dataVars, markersGroup, searchVars, selectVars, highlighted,
                 sidePopup, imageVars, view, timers>>

\* The form of the open popup can be used: the popup of draft d is open and
\* still holds the form.
FormOpen(d) == d # 0 /\ openPopup = d /\ drafts[d].content = "form"

\* The drafts whose form is in the document, in document order, the drafts
\* being ds: the forms of the fading popups, oldest first, then the form of
\* the open popup. Every form carries the ids marker-name, marker-img,
\* marker-info, related-items-container, add-related-item and copy-marker,
\* so that document.getElementById finds the elements of the first form, and
\* document.querySelectorAll the rows and remove buttons of all of them.
FormsInDocument(ds) ==
  [k \in 1..Len(fading) |-> fading[k].d]
  \o (IF openPopup # 0 /\ ds[openPopup].content = "form"
      THEN <<openPopup>> ELSE <<>>)

\* The form of draft d is in the document: the user can type into it and
\* click its buttons.
InDocument(d) ==
  \E k \in 1..Len(FormsInDocument(drafts)) : FormsInDocument(drafts)[k] = d

RECURSIVE DocumentRows(_, _)
\* document.querySelectorAll(".related-item-input"): the rows of the forms
\* fs, in document order.
DocumentRows(ds, fs) ==
  IF fs = <<>> THEN <<>>
  ELSE ds[Head(fs)].rows \o DocumentRows(ds, Tail(fs))

\* The form as the popup content renders it: the fields empty, one row, no
\* listener on a button.
FreshForm(d) ==
  [d EXCEPT !.name = "", !.img = "", !.info = "", !.rows = <<EmptyRow>>,
            !.listeners = <<>>]

\* The 50 ms timeout of draft d: marker.openPopup(). The timeouts fire in
\* the order the drafts were made. Leaflet closes the popup that is open,
\* which removes that draft, and "popupopen" sets the 10 ms timeout that
\* wires the buttons. Nothing happens for a marker that is off the map. For
\* a popup that is open already (a click on the marker opened it) no
\* "popupopen" is sent; a Leaflet that updates the popup then renders the
\* form again from the HTML string, which drops what was typed, the rows
\* added and the listeners on the buttons.
DraftOpenTimeout(d) ==
  /\ d \in 1..Len(drafts)
  /\ drafts[d].opening
  /\ \A e \in 1..(d - 1) : ~drafts[e].opening
  /\ IF drafts[d].onMap /\ openPopup # d
     THEN /\ drafts' = [CloseOpenPopup(drafts) EXCEPT ![d].opening = FALSE]
          /\ markersGroup' = GroupAfterClose(markersGroup)
          /\ openPopup' = d
          /\ wires' = Append(wires, d)
          /\ fading' = FadingAfterClose(OpenFired(fading, d),
                                        drafts', wires')
     ELSE /\ drafts' = [drafts EXCEPT
                          ![d] = IF FormOpen(d) /\ leaflet.update
                                 THEN [FreshForm(@) EXCEPT !.opening = FALSE]
                                 ELSE [@ EXCEPT !.opening = FALSE]]
          /\ fading' = OpenFired(fading, d)
          /\ UNCHANGED <<markersGroup, openPopup, wires>>
  /\ UNCHANGED <<createMarkerMode, clipboard, writes, leaflet, removals>>
  /\ UNCHANGED <<lastOp, focusArgs, warmLog>>
  /\ UNCHANGED <<dataVars, searchVars, selectVars, highlighted,
                 sidePopup, imageVars, view, timers>>

\* A click on the marker of draft d: Leaflet toggles the bound popup. An
\* open popup is closed, which removes the draft; otherwise the popup is
\* opened as by the 50 ms timeout, ahead of it.
ClickDraftMarker(d) ==
  /\ d \in 1..Len(drafts)
  /\ drafts[d].onMap
  /\ drafts' = CloseOpenPopup(drafts)
  /\ markersGroup' = GroupAfterClose(markersGroup)
  /\ openPopup' = IF openPopup = d THEN 0 ELSE d
  /\ wires' = IF openPopup = d THEN wires ELSE Append(wires, d)
  /\ fading' = FadingAfterClose(fading, drafts', wires')
  /\ UNCHANGED <<createMarkerMode, clipboard, writes, leaflet, removals>>
  /\ UNCHANGED <<lastOp, focusArgs, warmLog>>
  /\ UNCHANGED <<dataVars, searchVars, selectVars, highlighted,
                 sidePopup, imageVars, view, timers>>

\* The user closes the open popup (its close button, the Escape key).
PopupClose ==
  /\ openPopup # 0
  /\ drafts' = CloseOpenPopup(drafts)
  /\ markersGroup' = GroupAfterClose(markersGroup)
  /\ openPopup' = 0
  /\ fading' = FadingAfterClose(fading, drafts', wires)
  /\ UNCHANGED <<createMarkerMode, clipboard, wires, writes, leaflet, removals>>
  /\ UNCHANGED <<lastOp, focusArgs, warmLog>>
  /\ UNCHANGED <<dataVars, searchVars, selectVars, highlighted,
                 sidePopup, imageVars, view, timers>>

\* The user drags draft d to pt: Leaflet closes the marker's popup when the
\* drag starts, which removes the draft; a draft whose popup is not open yet
\* is moved. The latlng createMarkerWithPopup was called with stays as it is.
DragDraft(d, pt) ==
  /\ d \in 1..Len(drafts)
  /\ drafts[d].onMap
  /\ pt # drafts[d].pos
  /\ IF openPopup = d
     THEN /\ drafts' = CloseOpenPopup(drafts)
          /\ markersGroup' = GroupAfterClose(markersGroup)
          /\ openPopup' = 0
          /\ fading' = FadingAfterClose(fading, drafts', wires)
     ELSE /\ drafts' = [drafts EXCEPT ![d].pos = pt]
          /\ UNCHANGED <<markersGroup, openPopup, fading>>
  /\ UNCHANGED <<createMarkerMode, clipboard, wires, writes, leaflet, removals>>
  /\ UNCHANGED <<lastOp, focusArgs, warmLog>>
  /\ UNCHANGED <<dataVars, searchVars, selectVars, highlighted,
                 sidePopup, imageVars, view, timers>>

\* setupRemoveButtons(): the onclick of every remove button in the document
\* is set, in the forms of fading popups as in the form of the open popup.
SetupRemoveButtons(ds) ==
  [d \in 1..Len(ds) |->
     IF \E k \in 1..Len(FormsInDocument(ds)) : FormsInDocument(ds)[k] = d
     THEN [ds[d] EXCEPT !.rows = [i \in 1..Len(@) |-> [@[i] EXCEPT !.armed = TRUE]]]
     ELSE ds[d]]

\* The 10 ms timeout the "popupopen" handler of a draft set, oldest first:
\* its closure looks add-related-item, related-items-container and
\* copy-marker up in the document and adds its listeners to what it finds:
\* the buttons of the first form in the document, whichever draft it belongs
\* to. That is the form of a fading popup while there is one (the listeners
\* go with it when it leaves the document), the form of the open popup
\* otherwise. setupRemoveButtons() sets the onclick of the remove buttons of
\* every form in the document. With no form in the document it logs "Copy
\* button not found." and adds nothing.
DraftWireTimeout ==
  /\ wires # <<>>
  /\ wires' = Tail(wires)
  /\ LET forms == FormsInDocument(drafts)
         wired == IF forms = <<>> THEN drafts
                  ELSE [drafts EXCEPT ![forms[1]].listeners = Append(@, Head(wires))]
     IN  drafts' = SetupRemoveButtons(wired)
  /\ fading' = WireFired(fading)
  /\ UNCHANGED <<openPopup, createMarkerMode, clipboard, writes, leaflet,
                 removals>>
  /\ UNCHANGED <<lastOp, focusArgs, warmLog>>
  /\ UNCHANGED <<dataVars, markersGroup, searchVars, selectVars, highlighted,
                 sidePopup, imageVars, view, timers>>

\* The 200 ms timeout of the popup that was closed first: its container
\* leaves the document, and the form with it. The shorter timeouts that were
\* pending when it was set have fired.
FadeTimeout ==
  /\ fading # <<>>
  /\ Head(fading).opens = {}
  /\ Head(fading).wait = 0
  /\ fading' = Tail(fading)
  /\ drafts' = [drafts EXCEPT ![Head(fading).d] = NoForm(@)]
  /\ UNCHANGED <<openPopup, createMarkerMode, clipboard, wires, writes, leaflet,
                 removals>>
  /\ UNCHANGED <<lastOp, focusArgs, warmLog>>
  /\ UNCHANGED <<dataVars, markersGroup, searchVars, selectVars, highlighted,
                 sidePopup, imageVars, view, timers>>

\* The value of field f of the form of draft d.
FieldOf(d, f) ==
  CASE f = "name" -> d.name
    [] f = "img"  -> d.img
    [] OTHER      -> d.info

\* The user changes marker-name, marker-img or marker-info of the form of
\* draft F to v. The form is in the document: in the open popup or in a
\* popup that is fading out.
EditField(F, f, v) ==
  /\ F \in 1..Len(drafts)
  /\ InDocument(F)
  /\ f \in {"name", "img", "info"}
  /\ v # FieldOf(drafts[F], f)
  /\ drafts' = [drafts EXCEPT ![F] =
                  CASE f = "name" -> [@ EXCEPT !.name = v]
                    [] f = "img"  -> [@ EXCEPT !.img = v]
                    [] OTHER      -> [@ EXCEPT !.info = v]]
  /\ UNCHANGED <<openPopup, createMarkerMode, clipboard, wires, writes, leaflet,
                 fading, removals>>
  /\ UNCHANGED <<lastOp, focusArgs, warmLog>>
  /\ UNCHANGED <<dataVars, markersGroup, searchVars, selectVars, highlighted,
                 sidePopup, imageVars, view, timers>>

\* A click on add-related-item of the form of draft F: every listener on
\* the button appends an empty row to the container its closure found with
\* the button, the one of this form, and calls setupRemoveButtons(). Before
\* the button is wired a click runs no code of the page.
AddRelatedItem(F) ==
  /\ F \in 1..Len(drafts)
  /\ InDocument(F)
  /\ drafts[F].listeners # <<>>
  /\ Len(drafts[F].rows) + Len(drafts[F].listeners) <= MaxRows
  /\ drafts' = SetupRemoveButtons(
                 [drafts EXCEPT ![F].rows =
                    @ \o [k \in 1..Len(drafts[F].listeners) |-> EmptyRow]])
  /\ UNCHANGED <<openPopup, createMarkerMode, clipboard, wires, writes, leaflet,
                 fading, removals>>
  /\ UNCHANGED <<lastOp, focusArgs, warmLog>>
  /\ UNCHANGED <<dataVars, markersGroup, searchVars, selectVars, highlighted,
                 sidePopup, imageVars, view, timers>>

\* A click on the remove button of row i of the form of draft F: its
\* onclick removes the row. The onclick is set by setupRemoveButtons, called
\* by the 10 ms timeout and the add listener of any draft while the row is
\* in the document; before that a click runs no code of the page.
RemoveRelatedItem(F, i) ==
  /\ F \in 1..Len(drafts)
  /\ InDocument(F)
  /\ i \in 1..Len(drafts[F].rows)
  /\ drafts[F].rows[i].armed
  /\ drafts' = [drafts EXCEPT ![F].rows =
                  SubSeq(@, 1, i - 1) \o SubSeq(@, i + 1, Len(@))]
  /\ UNCHANGED <<openPopup, createMarkerMode, clipboard, wires, writes, leaflet,
                 fading, removals>>
  /\ UNCHANGED <<lastOp, focusArgs, warmLog>>
  /\ UNCHANGED <<dataVars, markersGroup, searchVars, selectVars, highlighted,
                 sidePopup, imageVars, view, timers>>

\* The user changes the name and the description in row i of the form of
\* draft F to n and x.
EditRow(F, i, n, x) ==
  /\ F \in 1..Len(drafts)
  /\ InDocument(F)
  /\ i \in 1..Len(drafts[F].rows)
  /\ <<n, x>> # <<drafts[F].rows[i].name, drafts[F].rows[i].desc>>
  /\ drafts' = [drafts EXCEPT ![F].rows[i] = [@ EXCEPT !.name = n, !.desc = x]]
  /\ UNCHANGED <<openPopup, createMarkerMode, clipboard, wires, writes, leaflet,
                 fading, removals>>
  /\ UNCHANGED <<lastOp, focusArgs, warmLog>>
  /\ UNCHANGED <<dataVars, markersGroup, searchVars, selectVars, highlighted,
                 sidePopup, imageVars, view, timers>>

\* digits padded with zeros on the left to n characters.
PadLeft(digits, n) ==
  [i \in 1..(n - Len(digits)) |-> "0"] \o digits

\* x.toFixed(6) for x given in units of 10^-7: the sign of x, then the
\* nearest multiple of 10^-6 to |x| with its six fractional digits.
ToFixed6(x) ==
  LET a == IF x < 0 THEN 0 - x ELSE x
      n == (a + 5) \div 10
  IN  (IF x < 0 THEN <<"-">> ELSE <<>>)
      \o NatDigits(n \div 1000000) \o <<".">>
      \o PadLeft(NatDigits(n % 1000000), 6)

RECURSIVE RelatedItemsUntrimmed(_)
\* Mutant of RelatedItemsOf: the names are taken as typed, without trim().
RelatedItemsUntrimmed(rows) ==
  IF rows = <<>> THEN <<>>
  ELSE (IF Head(rows).name # <<>> THEN <<Head(rows).name>> ELSE <<>>)
       \o RelatedItemsUntrimmed(Tail(rows))

RECURSIVE RelatedItemsOf(_)
\* relatedItems: the trimmed name of every row whose trimmed name is not empty.
RelatedItemsOf(rows) ==
  IF rows = <<>> THEN <<>>
  ELSE (IF Trim(Head(rows).name) # <<>> THEN <<Trim(Head(rows).name)>> ELSE <<>>)
       \o RelatedItemsOf(Tail(rows))

\* The point markerData takes its coordinates from: the latlng argument of
\* createMarkerWithPopup.
CommitPoint(d) == d.latlng

\* Mutant of MarkerData: the name is exported as typed, with no placeholder.
MarkerDataNameAsTyped(d, now) ==
  [id   |-> now,
   lat  |-> ToFixed6(d.latlng.lat),
   lng  |-> ToFixed6(d.latlng.lng),
   name |-> d.name,
   img  |-> d.img,
   info |-> d.info,
   relatedItems |-> RelatedItemsOf(d.rows)]

\* markerData as the click handler of copy-marker builds it from what it
\* read (d): the fields, the rows and the latlng of its closure.
MarkerData(d, now) ==
  [id   |-> now,
   lat  |-> ToFixed6(CommitPoint(d).lat),
   lng  |-> ToFixed6(CommitPoint(d).lng),
   name |-> IF d.name = "" THEN "New Location" ELSE d.name,
   img  |-> IF d.img = "" THEN "" ELSE d.img,
   info |-> IF d.info = "" THEN "" ELSE d.info,
   relatedItems |-> RelatedItemsOf(d.rows)]

\* What the copy listener of draft w reads with the forms fs in the
\* document: marker-name, marker-img and marker-info of the first form, the
\* rows of every form, and the latlng of its own closure.
FormSeenBy(ds, w, fs) ==
  [latlng |-> ds[w].latlng,
   name   |-> ds[fs[1]].name,
   img    |-> ds[fs[1]].img,
   info   |-> ds[fs[1]].info,
   rows   |-> DocumentRows(ds, fs)]

\* The draft w whose copy listener has run: markerData went to
\* copyToClipboard and marker.bindPopup made "Marker copied to clipboard!"
\* the content of its popup. A popup that is open shows it in the place of
\* the form; a popup that is off the map is not rendered, and openPopup()
\* does nothing for a marker that is off the map, so that a form that is
\* fading out stays in the document as it is.
Committed(ds, w, data) ==
  LET c == [ds[w] EXCEPT !.record = <<data>>, !.write = "pending",
                         !.content = "copied"]
  IN  IF openPopup = w THEN NoForm(c) ELSE c

RECURSIVE RunCopyListeners(_, _, _, _, _)
\* The listeners ls on a copy-marker button run, in the order they were
\* added, on a click at time now; ds, ws and rs are the drafts, the pending
\* clipboard writes and the pending 1500 ms timeouts. Each listener reads
\* the document as the listeners before it left it, hands its record to
\* copyToClipboard and sets one timeout that removes its marker. A listener
\* that finds no form in the document throws at
\* document.getElementById("marker-name").value and does nothing.
RunCopyListeners(ls, ds, ws, rs, now) ==
  IF ls = <<>> THEN [drafts |-> ds, writes |-> ws, removals |-> rs]
  ELSE IF FormsInDocument(ds) = <<>>
       THEN RunCopyListeners(Tail(ls), ds, ws, rs, now)
  ELSE LET w    == Head(ls)
           data == MarkerData(FormSeenBy(ds, w, FormsInDocument(ds)), now)
       IN  RunCopyListeners(Tail(ls), [ds EXCEPT ![w] = Committed(ds, w, data)],
                            Append(ws, [d |-> w, data |-> data]),
                            Append(rs, w), now)

\* A click at time now on copy-marker of the form of draft F, which is in
\* the document: in the open popup or in a popup that is fading out. The
\* listeners on the button run; before the button is wired a click runs no
\* code of the page. Where navigator.clipboard is undefined (a page not
\* served over HTTPS or localhost) copyToClipboard throws and each listener
\* ends there.
CopyClick(F, hasClipboard, now) ==
  /\ F \in 1..Len(drafts)
  /\ InDocument(F)
  /\ drafts[F].listeners # <<>>
  /\ hasClipboard =>
       /\ Len(clipboard) + Len(writes) + Len(drafts[F].listeners) <= MaxCopies
       /\ Len(removals) + Len(drafts[F].listeners) <= MaxCopies
  /\ LET r == RunCopyListeners(drafts[F].listeners, drafts, writes, removals, now)
     IN  /\ drafts' = IF hasClipboard THEN r.drafts ELSE drafts
         /\ writes' = IF hasClipboard THEN r.writes ELSE writes
         /\ removals' = IF hasClipboard THEN r.removals ELSE removals
  /\ UNCHANGED <<openPopup, createMarkerMode, clipboard, wires, leaflet, fading>>
  /\ UNCHANGED <<lastOp, focusArgs, warmLog>>
  /\ UNCHANGED <<dataVars, markersGroup, searchVars, selectVars, highlighted,
                 sidePopup, imageVars, view, timers>>

\* The Promise of the pending navigator.clipboard.writeText call i settles:
\* the text is on the clipboard, or the catch handler shows the alert. write
\* stays "pending" while another write of the same draft is pending.
ClipboardSettle(i, ok) ==
  /\ i \in 1..Len(writes)
  /\ LET d    == writes[i].d
         rest == SubSeq(writes, 1, i - 1) \o SubSeq(writes, i + 1, Len(writes))
     IN  /\ writes' = rest
         /\ drafts' = [drafts EXCEPT
                         ![d].write = IF \E k \in 1..Len(rest) : rest[k].d = d
                                      THEN "pending"
                                      ELSE IF ok THEN "done" ELSE "failed",
                         ![d].alerted = ~ok]
         /\ clipboard' = IF ok THEN Append(clipboard, writes[i].data) ELSE clipboard
  /\ UNCHANGED <<openPopup, createMarkerMode, wires, leaflet, fading, removals>>
  /\ UNCHANGED <<lastOp, focusArgs, warmLog>>
  /\ UNCHANGED <<dataVars, markersGroup, searchVars, selectVars, highlighted,
                 sidePopup, imageVars, view, timers>>

\* Draft d has a 1500 ms timeout pending.
RemovalPending(d) == \E k \in 1..Len(removals) : removals[k] = d

\* The 1500 ms timeout a copy listener set, oldest first:
\* map.removeLayer(marker). A popup that is open leaves the map with its
\* marker; nothing happens for a marker that is off the map already.
DraftRemoveTimeout ==
  /\ removals # <<>>
  /\ removals' = Tail(removals)
  /\ LET d == Head(removals)
     IN  IF openPopup = d
         THEN /\ drafts' = PopupClosed(drafts, d, "timeout")
              /\ markersGroup' = MapRemoveLayer(markersGroup, 0 - d)
              /\ openPopup' = 0
              /\ fading' = FadingAfterClose(fading, drafts', wires)
         ELSE /\ drafts' = [drafts EXCEPT
                              ![d].onMap = FALSE,
                              ![d].removedBy = IF drafts[d].onMap
                                               THEN "timeout" ELSE @]
              /\ markersGroup' = MapRemoveLayer(markersGroup, 0 - d)
              /\ UNCHANGED <<openPopup, fading>>
  /\ UNCHANGED <<createMarkerMode, clipboard, wires, writes, leaflet>>
  /\ UNCHANGED <<lastOp, focusArgs, warmLog>>
  /\ UNCHANGED <<dataVars, searchVars, selectVars, highlighted,
                 sidePopup, imageVars, view, timers>>

\* ------------------------------------------------------- specifications
\* The steps of the authoring flow, with every input the model has.
Authoring ==
  \/ CreateMarkerButton
  \/ \E pt \in Points : MapClick(pt)
  \/ \E pt \in Points : MapDblClick(pt)
  \/ \E d \in 1..Len(drafts) : DraftOpenTimeout(d)
  \/ \E d \in 1..Len(drafts) : ClickDraftMarker(d)
  \/ DraftWireTimeout
  \/ FadeTimeout
  \/ PopupClose
  \/ \E d \in 1..Len(drafts), pt \in Points : DragDraft(d, pt)
  \/ \E F \in 1..Len(drafts), f \in {"name", "img", "info"}, v \in NameTexts :
       EditField(F, f, v)
  \/ \E F \in 1..Len(drafts) : AddRelatedItem(F)
  \/ \E F \in 1..Len(drafts), i \in 1..MaxRows : RemoveRelatedItem(F, i)
  \/ \E F \in 1..Len(drafts), i \in 1..MaxRows, n \in ItemTexts, x \in DescTexts :
       EditRow(F, i, n, x)
  \/ \E F \in 1..Len(drafts), b \in BOOLEAN, now \in Timestamps :
       CopyClick(F, b, now)
  \/ \E i \in 1..Len(writes), ok \in BOOLEAN : ClipboardSettle(i, ok)
  \/ DraftRemoveTimeout

Next ==
  \/ \E f \in Files : LoadData(f)
  \/ \E c \in 1..Len(calls) : FetchComplete(c)
  \/ \E v \in Queries : SearchInput(v)
  \/ \E m \in 1..Len(markers) : ClickMarker(m)
  \/ SidePopupClose
  \/ \E p \in 1..Len(promises), ok \in BOOLEAN : ImageSettle(p, ok)
  \/ \E k \in 1..Len(sidebar) :
       \E li \in 1..Len(DataOf(sidebar[k].call)[sidebar[k].ci].locations) :
         ClickListItem(k, li)
  \/ \E k \in 1..Len(sidebar) : AccordionClick(k)
  \/ \E t \in 1..Len(warmTasks) : WarmRun(t)
  \/ \E i \in 1..Len(searchResults) : ClickSearchResult(i)
  \/ FocusTimeout
  \/ \E r \in WarmRequests : WarmCall(r.urls, r.limit)
  \/ \E l \in FocusTargets, o \in ZoomOptions : FocusCall(l, o)
  \/ Authoring

Spec == Init /\ [][Next]_vars

\* Loading and searching only: the Data Model, the marker layer, the query.
NextData ==
  \/ \E f \in Files : LoadData(f)
  \/ \E c \in 1..Len(calls) : FetchComplete(c)
  \/ \E v \in Queries : SearchInput(v)

SpecData == InitPlain /\ [][NextData]_vars

\* A session of the page as it is wired: the startup load, then queries,
\* marker clicks and focus requests.
NextSelect ==
  \/ DOMContentLoaded
  \/ \E c \in 1..Len(calls) : FetchComplete(c)
  \/ \E v \in Queries : SearchInput(v)
  \/ \E m \in 1..Len(markers) : ClickMarker(m)
  \/ SidePopupClose
  \/ \E k \in 1..Len(sidebar) :
       \E li \in 1..Len(DataOf(sidebar[k].call)[sidebar[k].ci].locations) :
         ClickListItem(k, li)
  \/ \E i \in 1..Len(searchResults) : ClickSearchResult(i)
  \/ FocusTimeout

SpecSelect == InitPlain /\ [][NextSelect]_vars

\* A session of the page as it is wired: the startup load, then detail
\* panels opened by marker clicks and warm-up runs loading images.
NextImage ==
  \/ DOMContentLoaded
  \/ \E c \in 1..Len(calls) : FetchComplete(c)
  \/ \E m \in 1..Len(markers) : ClickMarker(m)
  \/ SidePopupClose
  \/ \E k \in 1..Len(sidebar) : AccordionClick(k)
  \/ \E t \in 1..Len(warmTasks) : WarmRun(t)
  \/ \E q \in 1..Len(promises), ok \in BOOLEAN : ImageSettle(q, ok)

SpecImage == InitPlain /\ [][NextImage]_vars

\* Loading and searching with a document of more than 25 matching locations.
NextTrunc ==
  \/ \E f \in {"big.json", "categories.json"} : LoadData(f)
  \/ \E c \in 1..Len(calls) : FetchComplete(c)
  \/ \E v \in Queries : SearchInput(v)

SpecTrunc == InitPlain /\ [][NextTrunc]_vars

\* Warm-ups on a category with more images than the accordion's limit, and
\* direct warmCache calls.
NextWarm ==
  \/ calls = <<>> /\ LoadData("gallery.json")
  \/ \E c \in 1..Len(calls) : FetchComplete(c)
  \/ \E k \in 1..Len(sidebar) : AccordionClick(k)
  \/ \E r \in WarmRequests : WarmCall(r.urls, r.limit)
  \/ \E t \in 1..Len(warmTasks) : WarmRun(t)
  \/ \E q \in 1..Len(promises), ok \in BOOLEAN : ImageSettle(q, ok)

SpecWarm == InitPlain /\ [][NextWarm]_vars

\* Authoring sessions on the loaded page, on every Leaflet build: the data
\* is loaded at startup, then drafts are placed by double-click and by
\* authoring-mode click, their popups open, fade and close, the forms in the
\* document (of an open and of a fading popup) are edited, their rows added
\* and removed, their copy buttons clicked.
NextDraft ==
  \/ DOMContentLoaded
  \/ \E c \in 1..Len(calls) : FetchComplete(c)
  \/ categories # 0 /\ CreateMarkerButton
  \/ categories # 0 /\ MapClick(PlacePoint)
  \/ categories # 0 /\ MapDblClick(PlacePoint)
  \/ categories # 0 /\ \E d \in 1..Len(drafts) : DraftOpenTimeout(d)
  \/ categories # 0 /\ \E d \in 1..Len(drafts) : ClickDraftMarker(d)
  \/ categories # 0 /\ DraftWireTimeout
  \/ categories # 0 /\ FadeTimeout
  \/ categories # 0 /\ PopupClose
  \/ categories # 0 /\ \E d \in 1..Len(drafts), pt \in Spots :
                         openPopup = d /\ DragDraft(d, pt)
  \/ categories # 0 /\ EditField(1, "name", "Lab")
  \/ categories # 0 /\ AddRelatedItem(1)
  \/ categories # 0 /\ \E F \in 1..Len(drafts), i \in 1..MaxRows :
                         RemoveRelatedItem(F, i)
  \/ categories # 0 /\ EditRow(2, 1, <<"K">>, "d")
  \/ categories # 0 /\ \E F \in 1..Len(drafts), b \in BOOLEAN :
                         CopyClick(F, b, 1500)
  \/ categories # 0 /\ \E i \in 1..Len(writes), ok \in BOOLEAN :
                         ClipboardSettle(i, ok)
  \/ categories # 0 /\ DraftRemoveTimeout

SpecDraft == Init /\ [][NextDraft]_vars

\* The state after construction on a Leaflet whose openPopup renders an open
\* popup again. The builds differ there only in the 50 ms timeout of a popup
\* that a click on its marker has opened already; the sessions that start
\* here have no click on a draft marker.
InitAuthor == Init /\ leaflet.update

\* The forms of two drafts and their rows: drafts are placed, their popups
\* open, fade and close, rows of every form in the document are added,
\* removed and typed into, and the copy button of a form is clicked once the
\* clipboard writes and the removal of the click before are done.
NextExport ==
  \/ MapDblClick(PlacePoint)
  \/ \E d \in 1..Len(drafts) : DraftOpenTimeout(d)
  \/ DraftWireTimeout
  \/ FadeTimeout
  \/ PopupClose
  \/ \E F \in 1..Len(drafts) : AddRelatedItem(F)
  \/ \E F \in 1..Len(drafts), i \in 1..MaxRows : RemoveRelatedItem(F, i)
  \/ \E F \in 1..Len(drafts), i \in 1..MaxRows, n \in ItemTexts :
       EditRow(F, i, n, "d")
  \/ /\ clipboard = <<>> /\ writes = <<>> /\ removals = <<>>
     /\ \E F \in 1..Len(drafts), b \in BOOLEAN : CopyClick(F, b, 1500)
  \/ \E i \in 1..Len(writes), ok \in BOOLEAN : ClipboardSettle(i, ok)
  \/ DraftRemoveTimeout

SpecExport == InitAuthor /\ [][NextExport]_vars

\* The forms of two drafts and their fields: drafts are placed, their popups
\* open, fade and close, the name field of every form in the document is
\* typed into, and copy buttons are clicked.
NextName ==
  \/ MapDblClick(PlacePoint)
  \/ \E d \in 1..Len(drafts) : DraftOpenTimeout(d)
  \/ DraftWireTimeout
  \/ FadeTimeout
  \/ PopupClose
  \/ \E F \in 1..Len(drafts), v \in NameTexts : EditField(F, "name", v)
  \/ \E f \in {"img", "info"} : EditField(1, f, "Lab")
  \/ \E F \in 1..Len(drafts), b \in BOOLEAN : CopyClick(F, b, 1500)
  \/ \E i \in 1..Len(writes), ok \in BOOLEAN : ClipboardSettle(i, ok)
  \/ DraftRemoveTimeout

SpecName == InitAuthor /\ [][NextName]_vars

\* The life of drafts on the loaded page: they are placed, their popups open
\* and close (also by a click on the first placed marker of the data), they
\* are dragged and committed; the timeouts that were set fire in the end.
NextLife ==
  \/ DOMContentLoaded
  \/ \E c \in 1..Len(calls) : FetchComplete(c)
  \/ ClickMarker(1)
  \/ CreateMarkerButton
  \/ MapClick(PlacePoint)
  \/ MapDblClick(PlacePoint)
  \/ \E d \in 1..Len(drafts) : DraftOpenTimeout(d)
  \/ \E d \in 1..Len(drafts) : ClickDraftMarker(d)
  \/ DraftWireTimeout
  \/ FadeTimeout
  \/ PopupClose
  \/ \E d \in 1..Len(drafts), pt \in Spots : DragDraft(d, pt)
  \/ \E F \in 1..Len(drafts), b \in BOOLEAN : CopyClick(F, b, 1500)
  \/ \E i \in 1..Len(writes), ok \in BOOLEAN : ClipboardSettle(i, ok)
  \/ DraftRemoveTimeout

SpecDraftFair ==
  /\ Init /\ [][NextLife]_vars
  /\ WF_vars(DraftRemoveTimeout)

\* Two drafts at different points, with the timeouts of both in any order
\* the timers allow: popups open, fade and close, markers are dragged, rows
\* are added and removed, copy buttons are clicked at different times.
NextPair ==
  \/ \E pt \in Spots : MapDblClick(pt)
  \/ \E d \in 1..Len(drafts) : DraftOpenTimeout(d)
  \/ DraftWireTimeout
  \/ FadeTimeout
  \/ PopupClose
  \/ \E d \in 1..Len(drafts), pt \in Spots : DragDraft(d, pt)
  \/ \E F \in 1..Len(drafts) : AddRelatedItem(F)
  \/ \E F \in 1..Len(drafts), i \in 1..MaxRows : RemoveRelatedItem(F, i)
  \/ \E F \in 1..Len(drafts), b \in BOOLEAN, now \in Timestamps :
       CopyClick(F, b, now)
  \/ \E i \in 1..Len(writes), ok \in BOOLEAN : ClipboardSettle(i, ok)
  \/ DraftRemoveTimeout

SpecPair == InitAuthor /\ [][NextPair]_vars

\* Focus requests of every kind on a loaded document: the document is good
\* or has a location with unparseable coordinates.
NextFocus ==
  \/ calls = <<>> /\ \E f \in {"categories.json", "bad.json"} : LoadData(f)
  \/ \E c \in 1..Len(calls) : FetchComplete(c)
  \/ \E l \in FocusTargets, o \in ZoomOptions : FocusCall(l, o)
  \/ FocusTimeout
  \/ SidePopupClose

SpecFocus == InitPlain /\ [][NextFocus]_vars

\* The files a reload is made with in a session that reloads the data.
ReloadFiles == {"categories.json", "alt.json"}

\* A session with reloads: loadData called again while markers are
\* selected and focus timeouts are pending.
NextReload ==
  \/ \E f \in ReloadFiles : LoadData(f)
  \/ \E c \in 1..Len(calls) : FetchComplete(c)
  \/ \E m \in 1..Len(markers) : ClickMarker(m)
  \/ SidePopupClose
  \/ \E k \in 1..Len(sidebar) :
       \E li \in 1..Len(DataOf(sidebar[k].call)[sidebar[k].ci].locations) :
         ClickListItem(k, li)
  \/ FocusTimeout

SpecReload == InitPlain /\ [][NextReload]_vars

\* ------------------------------------------------------------- properties
\* C1: no url has more than one image load started for it, and every caller
\* that waits for an image (a detail panel, a warm-up run) waits on the one
\* Promise memoized for that url.
C1_LoadOncePerUrl ==
  /\ \A u \in Urls :
       Cardinality({q \in 1..Len(promises) : promises[q].url = u}) <= 1
  /\ \A sb \in subs : imageLoadCache[promises[sb.p].url] = sb.p
  /\ \A t \in 1..Len(warmTasks) :
       warmTasks[t].awaiting # 0
       => imageLoadCache[promises[warmTasks[t].awaiting].url] = warmTasks[t].awaiting

\* C1 witness: a detail panel and a warm-up run both wait on the same
\* pending load.
C1_Witness ==
  \E q \in 1..Len(promises) :
    /\ promises[q].state = "pending"
    /\ [p |-> q, live |-> TRUE] \in subs
    /\ \E t \in 1..Len(warmTasks) : warmTasks[t].awaiting = q

\* C2: at most one marker handle carries the emphasis, and only the handle
\* of the last highlightMarker call can carry it; it does carry it right
\* after the click that selected it.
C2_AtMostOneHighlighted ==
  /\ highlighted \subseteq {selected}
  /\ currentHighlightedMarker = selected
  /\ (lastOp = "click" => highlighted = {selected})

\* C2 witness: the handle selected before is still attached, a different
\* handle has been selected since and carries the emphasis alone.
C2_Witness ==
  /\ previous # 0
  /\ previous # selected
  /\ previous \in markersGroup
  /\ highlighted = {selected}

\* No fetch started by loadData is still pending.
NoFetchPending == \A c \in 1..Len(calls) : calls[c].state # "pending"

\* Marker handles created from the data of call c.
MarkersOfCall(c) == {m \in 1..Len(markers) : markers[m].call = c}

\* s contains q as a substring, letters compared without regard to case.
ContainsCI(s, q) ==
  \E i \in 0..(Len(s) - Len(q)) :
    \A j \in 1..Len(q) : LowerChar(s[i + j]) = LowerChar(q[j])

\* The matching policy: the name or some related item contains q.
LocationMatches(loc, q) ==
  \/ ContainsCI(loc.name, q)
  \/ \E k \in 1..Len(loc.relatedItems) : ContainsCI(loc.relatedItems[k], q)

\* The location at <<ci, li>> of the current Data Model is in matches.
InMatches(ci, li) ==
  \E i \in 1..Len(matches) :
    matches[i].call = categories /\ matches[i].ci = ci /\ matches[i].li = li

\* Positions <<ci, li>> of the locations of the current Data Model.
CurrentLocs == {LocsOf(CurrentDoc)[i] : i \in 1..Len(LocsOf(CurrentDoc))}

\* Marker handles of the locations of the current Data Model that match q.
MarkersMatching(q) ==
  {m \in ModelMarkers :
     LocationMatches(CurrentDoc[markers[m].ci].locations[markers[m].li], q)}

\* C3 (as claimed): once two loadData calls made in succession have both
\* completed, the marker layer holds exactly the markers of the second
\* call's document.
C3_ReloadCoherence ==
  (/\ Len(calls) >= 2
   /\ NoFetchPending
   /\ calls[Len(calls) - 1].state = "done"
   /\ calls[Len(calls)].state = "done"
   /\ lastOp = "fetch")
  => markersGroup = MarkersOfCall(Len(calls))

\* C4 (as claimed): for a query q that is not empty, a location is in the
\* match set iff its name or a related item contains q, case-insensitively,
\* q being the value the handler was given.
C4_MatchSetRawQuery ==
  (lastOp = "search" /\ Trim(searchValue) # <<>>)
  => \A l \in CurrentLocs :
       InMatches(l[1], l[2])
         <=> LocationMatches(CurrentDoc[l[1]].locations[l[2]], searchValue)

\* C4 (amended): for a query q that is not empty once trimmed, a location is
\* in the match set iff its name or a related item contains the trimmed q,
\* case-insensitively.
C4_MatchSetTrimmedQuery ==
  (lastOp = "search" /\ Trim(searchValue) # <<>>)
  => \A l \in CurrentLocs :
       InMatches(l[1], l[2])
         <=> LocationMatches(CurrentDoc[l[1]].locations[l[2]], Trim(searchValue))

\* C4 witness: the query "ab" on categories.json matched "Ab" by name and
\* "bz" by its related item "aB", and left "B" out.
C4_Witness ==
  /\ lastOp = "search"
  /\ searchValue = <<"a", "b">>
  /\ categories # 0
  /\ calls[categories].file = "categories.json"
  /\ Len(matches) = 2
  /\ matches[2].matchedRelatedItems = << <<"a", "B">> >>

\* C5: after the handler has processed an empty or whitespace-only query,
\* every marker of the Data Model is attached and the results panel is hidden.
C5_EmptyQueryShowsAll ==
  (lastOp = "search" /\ Trim(searchValue) = <<>>)
  => (ModelMarkers \subseteq markersGroup /\ ~searchShown /\ searchResults = <<>>)

\* C5 witness: a whitespace-only query was processed with markers in the
\* Data Model.
C5_Witness ==
  /\ lastOp = "search"
  /\ searchValue = <<" ">>
  /\ ModelMarkers # {}
  /\ ModelMarkers \subseteq markersGroup

\* C6: after the handler has processed a non-empty query, the attached
\* markers of the Data Model are exactly those of the matching locations.
C6_NonEmptyQueryExact ==
  (lastOp = "search" /\ Trim(searchValue) # <<>>)
  => markersGroup \cap ModelMarkers = MarkersMatching(Trim(searchValue))

\* C6 witness: a non-empty query left some markers of the Data Model
\* attached and detached others.
C6_Witness ==
  /\ lastOp = "search"
  /\ Trim(searchValue) # <<>>
  /\ markersGroup \cap ModelMarkers # {}
  /\ ModelMarkers \ markersGroup # {}

\* C7 (as claimed): whenever no fetch is pending, the attached markers are
\* exactly the markers of the locations of the Data Model that match the
\* current query, all of them when the query is empty.
C7_VisibilityPure ==
  NoFetchPending
  => markersGroup =
       (IF Trim(searchValue) = <<>> THEN ModelMarkers
        ELSE MarkersMatching(Trim(searchValue)))

\* C8 (as claimed): a completed load of a parseable document places a marker
\* for every location with parseable coordinates and none for the others,
\* lists every category, and is not aborted.
C8_BadLocationSkipped ==
  \A c \in 1..Len(calls) :
    LET r == Response(calls[c].file)
    IN  (calls[c].state # "pending" /\ r.ok /\ r.parseable)
        => /\ calls[c].state = "done"
           /\ \A i \in 1..Len(LocsOf(r.body)) :
                LET l   == LocsOf(r.body)[i]
                    loc == r.body[l[1]].locations[l[2]]
                IN  HasMarker(c, l[1], l[2])
                      <=> ~(ParseFloat(loc.lat).nan \/ ParseFloat(loc.lng).nan)
           /\ (lastOp = "fetch" /\ categories = c)
              => \A ci \in 1..Len(r.body) :
                   \E k \in 1..Len(sidebar) : sidebar[k].call = c /\ sidebar[k].ci = ci

\* C9: the settlement of a fetch whose response is not ok or whose payload
\* cannot be parsed leaves the Data Model, the marker handles, the marker
\* layer and the sidebar as they were, and the failure is logged.
C9_FailedLoadAborts ==
  [][\A c \in 1..Len(calls) :
       LET r == Response(calls[c].file)
       IN  (/\ calls[c].state = "pending"
            /\ Len(calls') = Len(calls)
            /\ calls'[c].state # "pending"
            /\ (~r.ok \/ ~r.parseable))
           => /\ calls'[c].state = "failed"
              /\ categories' = categories
              /\ markers' = markers
              /\ markersGroup' = markersGroup
              /\ sidebar' = sidebar]_vars

\* C9 witness: the load of missing.json failed after an earlier load had
\* succeeded, and the Data Model is still the earlier document.
C9_Witness ==
  \E c \in 1..Len(calls) :
    /\ calls[c].file = "missing.json"
    /\ calls[c].state = "failed"
    /\ categories # 0
    /\ categories < c
    /\ MarkersOfCall(c) = {}

\* C10 (as claimed): once every fetch has settled and the most recent call
\* succeeded, the Data Model and its markers are those of the most recent
\* call, in whatever order the fetches resolved.
C10_LatestCallWins ==
  (Len(calls) >= 2 /\ NoFetchPending /\ calls[Len(calls)].state = "done")
  => (categories = Len(calls) /\ ModelMarkers = MarkersOfCall(Len(calls)))

\* C11: a failed image load is remembered. The rejected Promise stays the one
\* memoized for its url and no other load of that url is ever started, and a
\* detail panel opened for a location whose image has already failed shows
\* the failure at once instead of loading.
C11_FailureMemoized ==
  /\ \A q \in 1..Len(promises) :
       promises[q].state = "rejected"
       => /\ imageLoadCache[promises[q].url] = q
          /\ \A r \in 1..Len(promises) : promises[r].url = promises[q].url => r = q
  /\ (lastOp = "click" /\ sidePopup.shown /\ LocationAt(sidePopup.loc).img # "")
     => LET q == imageLoadCache[LocationAt(sidePopup.loc).img]
        IN  promises[q].state = "rejected"
            => sidePopup.slot = "failed" /\ sidePopup.src = ""

\* C11 witness: a marker is clicked after the image of its location failed;
\* the panel shows the failure and the one load of that url is the failed one.
C11_Witness ==
  /\ lastOp = "click"
  /\ sidePopup.shown
  /\ sidePopup.slot = "failed"
  /\ LocationAt(sidePopup.loc).img # ""
  /\ promises[imageLoadCache[LocationAt(sidePopup.loc).img]].state = "rejected"

\* C15: focusLocation hands setView the requested zoom clamped into the
\* map's zoom range (999 becomes the maximum 10), and the default zoom 2.4
\* when options carries no zoom of type number.
C15_ZoomClamped ==
  (/\ lastOp = "focus"
   /\ focusArgs.loc # <<>>
   /\ ~ParseFloat(LocationAt(focusArgs.loc).lat).nan
   /\ ~ParseFloat(LocationAt(focusArgs.loc).lng).nan)
  => LET z == IF focusArgs.options.has THEN focusArgs.options.zoom ELSE DefaultZoom
     IN  /\ z > MapMaxZoom => view.zoom = MapMaxZoom
         /\ z < MapMinZoom => view.zoom = MapMinZoom
         /\ (MapMinZoom <= z /\ z <= MapMaxZoom) => view.zoom = z
         /\ view.lat = ParseFloat(LocationAt(focusArgs.loc).lat).val
         /\ view.lng = ParseFloat(LocationAt(focusArgs.loc).lng).val

\* C15 witness: a focus request with zoom 999 has set the view at zoom 10.
C15_Witness ==
  /\ lastOp = "focus"
  /\ focusArgs.loc # <<>>
  /\ focusArgs.options = [has |-> TRUE, zoom |-> 9990]
  /\ view.zoom = 100
  /\ timers # <<>>

\* C16: a focusLocation call without a location, or for a location whose
\* latitude or longitude does not parse, changes nothing: the view, the
\* pending second phases, the highlight and the detail panel stay as they are.
C16_FocusNoOp ==
  [][(/\ lastOp' = "focus"
      /\ \/ focusArgs'.loc = <<>>
         \/ ParseFloat(LocationAt(focusArgs'.loc).lat).nan
         \/ ParseFloat(LocationAt(focusArgs'.loc).lng).nan)
     => UNCHANGED <<view, timers, currentHighlightedMarker, highlighted,
                    sidePopup, markersGroup, searchVars>>]_vars

\* C16 witness: focusLocation was called for the location with latitude
\* "abc" after another location had been focused; the view is still the
\* earlier one and its second phase is the only one that was scheduled.
C16_Witness ==
  /\ lastOp = "focus"
  /\ focusArgs.loc # <<>>
  /\ ParseFloat(LocationAt(focusArgs.loc).lat).nan
  /\ view.zoom = SearchResultZoom
  /\ Len(timers) <= 1

\* C18: the matches of a query are in document order: by category in the
\* order of the Data Model, and within a category by location order.
C18_MatchesInDocumentOrder ==
  \A i \in 1..Len(matches) : \A j \in 1..Len(matches) :
    i < j => \/ matches[i].ci < matches[j].ci
             \/ matches[i].ci = matches[j].ci /\ matches[i].li < matches[j].li

\* C18 witness: a query with matches in both categories of a document, two
\* or more of them in the first.
C18_Witness ==
  /\ lastOp = "search"
  /\ Len(matches) >= 3
  /\ matches[1].ci = 1
  /\ matches[2].ci = 1
  /\ matches[Len(matches)].ci = 2

\* C19: after a query with matches the panel lists the first 25 matches and
\* no more, while the marker of every match, listed or not, is attached.
C19_ListTruncatedMarkersNot ==
  (lastOp = "search" /\ NormalizeQuery(searchValue) # <<>>)
  => /\ Len(searchResults) <= MaxResults
     /\ Len(searchResults) = IF Len(matches) < MaxResults THEN Len(matches)
                              ELSE MaxResults
     /\ \A i \in 1..Len(searchResults) : searchResults[i] = matches[i]
     /\ \A i \in 1..Len(matches) :
          HasMarker(matches[i].call, matches[i].ci, matches[i].li)
          => MarkerOf(matches[i].call, matches[i].ci, matches[i].li) \in markersGroup
     /\ MarkersMatching(NormalizeQuery(searchValue)) \subseteq markersGroup

\* C19 witness: a query with more than 25 matches; the panel lists 25 and
\* the marker of the last match is attached.
C19_Witness ==
  /\ lastOp = "search"
  /\ Len(matches) > MaxResults
  /\ Len(searchResults) = MaxResults
  /\ HasMarker(matches[Len(matches)].call, matches[Len(matches)].ci,
               matches[Len(matches)].li)
  /\ MarkerOf(matches[Len(matches)].call, matches[Len(matches)].ci,
              matches[Len(matches)].li) \in markersGroup

\* The urls a warmCache call is to load: the entries among the first limit
\* of its list that were not cached when it was called, in list order.
WarmExpected(c) ==
  LET n     == IF Len(c.urls) < c.limit THEN Len(c.urls) ELSE c.limit
      Fresh(u) == u \notin c.cached
  IN  SelectSeq(SubSeq(c.urls, 1, n), Fresh)

\* C20: a warmCache call loads exactly the entries among the first limit of
\* its list that were not cached when it was called: a run that is under way
\* has loaded a part of them and has the rest still to load, a call that has
\* ended has loaded them all; so at most limit loads are issued and no entry
\* beyond the first limit is loaded by the call.
C20_WarmBounded ==
  /\ \A t \in 1..Len(warmTasks) :
       /\ warmTasks[t].loaded \o warmTasks[t].queue = WarmExpected(warmTasks[t])
       /\ Len(warmTasks[t].loaded) <= warmTasks[t].limit
  /\ \A e \in warmLog :
       /\ e.loaded = WarmExpected(e)
       /\ Len(e.loaded) <= e.limit
       /\ \A i \in 1..Len(e.loaded) :
            \E j \in 1..Len(e.urls) : j <= e.limit /\ e.urls[j] = e.loaded[i]

\* C20 witness: an accordion warm-up of the seven-image category has ended
\* with an earlier image cached beforehand: it loaded candidates, fewer than
\* its limit, and the seventh image was never loaded.
C20_Witness ==
  /\ imageLoadCache["u3"] = 0
  /\ \E e \in warmLog :
       /\ e.limit = AccordionWarmLimit
       /\ Len(e.urls) > e.limit
       /\ e.cached # {}
       /\ e.loaded # <<>>

\* The phase of a draft in its life cycle.
PhaseOf(d) ==
  IF d.record # <<>> THEN "Committed"
  ELSE IF d.onMap THEN "Open" ELSE "Abandoned"

\* C12 (as claimed): when the clipboard write of a commit fails, the alert
\* is shown and the draft marker is not taken off the map by the program.
C12_FailedWriteKeepsDraft ==
  \A d \in 1..Len(drafts) :
    drafts[d].write = "failed"
    => /\ drafts[d].alerted
       /\ drafts[d].removedBy # "timeout"

\* What a step may do to draft d: a draft that is committed or abandoned
\* stays so, a commit hands the record to the clipboard and schedules the
\* removal, a popup that closes takes its marker off the map at once, and a
\* marker that is off the map stays off.
DraftStep(d) ==
  d <= Len(drafts)
  => /\ Len(drafts') >= Len(drafts)
     /\ PhaseOf(drafts[d]) # "Open" => PhaseOf(drafts'[d]) = PhaseOf(drafts[d])
     /\ (PhaseOf(drafts[d]) = "Open" /\ PhaseOf(drafts'[d]) = "Committed")
        => /\ drafts'[d].write = "pending"
           /\ RemovalPending(d)'
           /\ drafts'[d].onMap
     /\ (openPopup = d /\ openPopup' # d) => ~drafts'[d].onMap
     /\ ~drafts[d].onMap => ~drafts'[d].onMap

\* C13 (as claimed): every draft goes from Open to Committed or to Abandoned
\* and never on from there; a commit hands the record to the clipboard and schedules the
\* removal, closing the popup removes the marker at once; a draft on the
\* map is waiting for its popup to open or has it open, a committed draft on
\* the map has its removal pending, and every committed draft is off the
\* map in the end.
C13_DraftLifecycle ==
  /\ [][\A d \in 1..MaxDrafts : DraftStep(d)]_vars
  /\ [](\A d \in 1..Len(drafts) :
          /\ drafts[d].onMap => (drafts[d].opening \/ openPopup = d)
          /\ (PhaseOf(drafts[d]) = "Committed" /\ drafts[d].onMap)
             => RemovalPending(d))
  /\ \A d \in 1..MaxDrafts :
       (d <= Len(drafts) /\ PhaseOf(drafts[d]) = "Committed")
         ~> (d <= Len(drafts) /\ ~drafts[d].onMap)

\* C14: no step of the authoring flow (placing a draft, opening, closing and
\* fading of popups, wiring, editing fields and rows of any form in the
\* document, a click on the copy button of any form, the clipboard write,
\* the removal) changes the Data Model, the loadData calls, the marker
\* handles made from the data, the markers attached to the map or the
\* sidebar: a step leaves them as they are, or it is no step of Authoring.
C14_AuthoringFrame ==
  [][\/ UNCHANGED <<categories, calls, markers, markersGroup, sidebar>>
     \/ ~Authoring]_vars

\* C14 witness: with the Data Model loaded and its markers attached, the
\* row of a draft's form was removed, and the draft, renamed, was committed
\* by a click on the copy button of its form after its popup had closed, the
\* form still in the document; the other draft was committed or abandoned.
C14_Witness ==
  /\ categories # 0
  /\ markersGroup = ModelMarkers
  /\ markersGroup # {}
  /\ \E d \in 1..Len(drafts), e \in 1..Len(drafts) :
       /\ d # e
       /\ drafts[d].removedBy = "popupclose"
       /\ drafts[d].record # <<>>
       /\ drafts[d].record[1].name = "Lab"
       /\ InDocument(d)
       /\ drafts[d].rows = <<>>
       /\ PhaseOf(drafts[e]) # "Open"

\* str writes the number x (in units of 10^-7) with exactly six fractional
\* digits: an optional sign, digits, a point, six digits, and the value
\* written is the multiple of 10^-6 nearest to x.
IsFixed6Of(str, x) ==
  LET neg  == str # <<>> /\ Head(str) = "-"
      body == IF neg THEN Tail(str) ELSE str
      n    == Len(body)
      a    == IF x < 0 THEN 0 - x ELSE x
  IN  /\ n >= 8
      /\ body[n - 6] = "."
      /\ \A i \in (1..n) \ {n - 6} : DigitVal(body[i]) >= 0
      /\ neg = (x < 0)
      /\ LET v == DigitsValue(SubSeq(body, 1, n - 7)) * 1000000
                   + DigitsValue(SubSeq(body, n - 5, n))
         IN  10 * v - a <= 5 /\ a - 10 * v <= 5

\* C17 (as claimed): every record a click on the copy button of a draft's
\* form hands to the clipboard has the fields id, lat, lng, name, img, info
\* and relatedItems; id is a timestamp, never empty; lat and lng write the
\* point that draft was placed at with exactly six fractional digits.
C17_RecordShape ==
  [][\A F \in 1..MaxDrafts, now \in Timestamps :
       CopyClick(F, TRUE, now)
       => \A k \in (Len(writes) + 1)..Len(writes') :
            LET r == writes'[k].data
            IN  /\ DOMAIN r = {"id", "lat", "lng", "name", "img", "info", "relatedItems"}
                /\ r.id \in Timestamps
                /\ r.id # 0
                /\ IsFixed6Of(r.lat, drafts[F].latlng.lat)
                /\ IsFixed6Of(r.lng, drafts[F].latlng.lng)]_vars

\* C21: warmCache returns before any of its loads is started: the step of
\* the caller leaves the image cache and the Promises as they are and the
\* run it schedules has loaded nothing. A failed image stops no run: no run
\* waits on a settled Promise, and a call that has ended has gone through
\* every url it was to load, whatever failed on its way.
C21_WarmDetachedAndIsolated ==
  /\ [][lastOp' \in {"accordion", "warmCall"}
        => /\ UNCHANGED <<imageLoadCache, promises, subs, sidePopup>>
           /\ \A t \in 1..Len(warmTasks') :
                t > Len(warmTasks)
                => warmTasks'[t].awaiting = 0 /\ warmTasks'[t].loaded = <<>>]_vars
  /\ [](/\ \A t \in 1..Len(warmTasks) :
             warmTasks[t].awaiting # 0
             => promises[warmTasks[t].awaiting].state = "pending"
         /\ \A e \in warmLog :
             /\ Len(e.loaded) = Len(WarmExpected(e))
             /\ \A i \in 1..Len(WarmExpected(e)) :
                  imageLoadCache[WarmExpected(e)[i]] # 0)

\* C21 witness: a warm-up call has ended although its first image failed;
\* the images after it were loaded all the same.
C21_Witness ==
  \E e \in warmLog :
    /\ Len(e.loaded) >= 2
    /\ promises[imageLoadCache[e.loaded[1]]].state = "rejected"
    /\ e.loaded[2] # e.loaded[1]
    /\ promises[imageLoadCache[e.loaded[2]]].state = "resolved"

\* C22 (as claimed): the emphasis is persistent. A step that leaves h the
\* highlighted handle, and h attached, does not take the emphasis from h.
C22_EmphasisPersistent ==
  [][(/\ currentHighlightedMarker # 0
      /\ currentHighlightedMarker \in highlighted
      /\ currentHighlightedMarker' = currentHighlightedMarker
      /\ currentHighlightedMarker \in markersGroup')
     => currentHighlightedMarker \in highlighted']_vars

\* C23 (as claimed): a reload resets the highlight state. Once a loadData
\* call c has completed, currentHighlightedMarker is not a handle that an
\* earlier call created and that a reload has taken off the map.
C23_ReloadResetsHighlight ==
  \A c \in 1..Len(calls) :
    calls[c].state = "done" =>
      ~(/\ currentHighlightedMarker # 0
        /\ markers[currentHighlightedMarker].call < c
        /\ currentHighlightedMarker \notin markersGroup)

\* Positions of the items that contain q, case-insensitively.
PositionsContaining(items, q) == {k \in 1..Len(items) : ContainsCI(items[k], q)}

\* r is the subsequence of items at the positions K, in the order of items.
IsSubsequenceAt(r, items, K) ==
  /\ Len(r) = Cardinality(K)
  /\ \A j \in 1..Len(r) :
       \E k \in K : Cardinality({x \in K : x <= k}) = j /\ r[j] = items[k]

\* C24: after the handler has processed a query that is not empty once
\* trimmed (the handler's query), the matchedRelatedItems of every match is
\* exactly the subsequence of the location's relatedItems that contain the
\* query case-insensitively, in their order; it is empty when no related
\* item contains the query (a match by name only, or no relatedItems).
C24_MatchedRelatedItems ==
  (lastOp = "search" /\ Trim(searchValue) # <<>>)
  => \A i \in 1..Len(matches) :
       LET items == DataOf(matches[i].call)[matches[i].ci].locations[matches[i].li].relatedItems
           K     == PositionsContaining(items, Trim(searchValue))
       IN  /\ IsSubsequenceAt(matches[i].matchedRelatedItems, items, K)
           /\ (K = {} => matches[i].matchedRelatedItems = <<>>)

\* C24 witness: one query gave a match by name only, with no matched items,
\* and a match whose matched items are some but not all of its relatedItems,
\* one of them differing from the query in case.
C24_Witness ==
  /\ lastOp = "search"
  /\ Trim(searchValue) # <<>>
  /\ \E i, j \in 1..Len(matches) :
       LET items == DataOf(matches[j].call)[matches[j].ci].locations[matches[j].li].relatedItems
       IN  /\ matches[i].matchedRelatedItems = <<>>
           /\ matches[j].matchedRelatedItems # <<>>
           /\ Len(matches[j].matchedRelatedItems) < Len(items)
           /\ \E k \in 1..Len(matches[j].matchedRelatedItems) :
                ~Includes(matches[j].matchedRelatedItems[k], Trim(searchValue))

\* The step is a call of focusLocation on a location with valid coordinates.
FocusStep ==
  /\ lastOp' = "focus"
  /\ focusArgs'.loc # <<>>
  /\ ~ParseFloat(LocationAt(focusArgs'.loc).lat).nan
  /\ ~ParseFloat(LocationAt(focusArgs'.loc).lng).nan

\* min(maxZoom, max(z, minZoom)) for the zoom the options ask for.
ZoomAsked(options) ==
  LET z == IF options.has THEN options.zoom ELSE DefaultZoom
  IN  IF z > MapMaxZoom THEN MapMaxZoom
      ELSE IF z < MapMinZoom THEN MapMinZoom ELSE z

\* C25: focusLocation on a location with valid coordinates is a two-phase
\* move. The call recentres the view at the clamped zoom and leaves the
\* highlight state and the detail panel alone, with one timeout pending
\* for the location. The offset pan, the highlight of the location's marker
\* and the detail panel of the location come with the step of that timeout
\* and of nothing before it: the pan is applied by no other step, and the
\* timeouts fire in the order of the calls.
C25_FocusTwoPhase ==
  [][/\ FocusStep =>
          /\ view' = [lat  |-> ParseFloat(LocationAt(focusArgs'.loc).lat).val,
                      lng  |-> ParseFloat(LocationAt(focusArgs'.loc).lng).val,
                      zoom |-> ZoomAsked(focusArgs'.options),
                      pan  |-> 0]
          /\ timers' = Append(timers, focusArgs'.loc)
          /\ UNCHANGED <<currentHighlightedMarker, highlighted, sidePopup>>
     /\ lastOp' = "focusTimeout" =>
          /\ timers # <<>>
          /\ timers' = Tail(timers)
          /\ view' = [view EXCEPT !.pan = view.pan + 1]
          /\ HasMarker(Head(timers)[1], Head(timers)[2], Head(timers)[3])
               => currentHighlightedMarker'
                    = MarkerOf(Head(timers)[1], Head(timers)[2], Head(timers)[3])
          /\ sidePopup'.shown
          /\ sidePopup'.loc = Head(timers)
     /\ view'.pan > view.pan => lastOp' = "focusTimeout"
    ]_vars

\* C25 witness: a focus asked for a zoom above the maximum; its timeout has
\* fired, the view is at the location at the maximal zoom with the offset
\* pan applied, the location's marker is highlighted and its panel is shown.
C25_Witness ==
  /\ lastOp = "focusTimeout"
  /\ timers = <<>>
  /\ focusArgs.loc # <<>>
  /\ focusArgs.options.has
  /\ focusArgs.options.zoom > MapMaxZoom
  /\ view = [lat  |-> ParseFloat(LocationAt(focusArgs.loc).lat).val,
             lng  |-> ParseFloat(LocationAt(focusArgs.loc).lng).val,
             zoom |-> MapMaxZoom, pan |-> 1]
  /\ sidePopup.shown
  /\ sidePopup.loc = focusArgs.loc
  /\ currentHighlightedMarker # 0
  /\ currentHighlightedMarker \in highlighted
  /\ <<markers[currentHighlightedMarker].call, markers[currentHighlightedMarker].ci,
       markers[currentHighlightedMarker].li>> = focusArgs.loc

\* C26: a commit is not held up by a missing name. A click on the copy
\* button of a form in the document, open or fading, that has a listener
\* hands at least one record over whatever the name field holds; every
\* record of the click has the placeholder as its name when the name field
\* of that form is empty and the name as typed otherwise, and is the record
\* of the draft it was built for. So no record built, waiting to be written
\* or on the clipboard has an empty name.
C26_NameDefaulted ==
  /\ [][\A F \in 1..MaxDrafts, now \in Timestamps :
          CopyClick(F, TRUE, now)
          => /\ Len(writes') > Len(writes)
             /\ \A k \in (Len(writes) + 1)..Len(writes') :
                  /\ writes'[k].data.name =
                       (IF drafts[F].name = "" THEN "New Location"
                        ELSE drafts[F].name)
                  /\ drafts'[writes'[k].d].record # <<>>
                  /\ drafts'[writes'[k].d].record[1].name = writes'[k].data.name]_vars
  /\ [](/\ \A d \in 1..Len(drafts) :
             drafts[d].record # <<>> => drafts[d].record[1].name # ""
        /\ \A i \in 1..Len(writes) : writes[i].data.name # ""
        /\ \A i \in 1..Len(clipboard) : clipboard[i].name # "")

\* C26 witness: with two forms in the document, the copy button of the
\* fading one, its name field empty, was clicked while the name field of the
\* open form held a name: the record on the clipboard carries the
\* placeholder.
C26_Witness ==
  \E d \in 1..Len(drafts), e \in 1..Len(drafts) :
    /\ d # e
    /\ InDocument(d)
    /\ drafts[d].removedBy = "popupclose"
    /\ drafts[d].name = ""
    /\ FormOpen(e)
    /\ drafts[e].name = "Lab"
    /\ drafts[d].record # <<>>
    /\ drafts[d].record[1].name = "New Location"
    /\ clipboard = drafts[d].record

\* t is n without the white space at its two ends.
IsTrimOf(t, n) ==
  /\ t # <<>> => (t[1] # " " /\ t[Len(t)] # " ")
  /\ \E a \in 0..Len(n) :
       /\ a + Len(t) <= Len(n)
       /\ \A k \in 1..Len(n) :
            IF k > a /\ k <= a + Len(t) THEN n[k] = t[k - a] ELSE n[k] = " "

\* Rows whose name has a character that is not white space.
NamedRows(rows) ==
  {k \in 1..Len(rows) : \E j \in 1..Len(rows[k].name) : rows[k].name[j] # " "}

SettledByStep ==
  {q \in 1..Len(promises) : promises[q].state = "pending" /\ promises'[q].state # "pending"}

\* C28: the completion of an image load that is not the load of the
\* location the panel shows changes nothing in the panel, and the image slot
\* of the panel of location B shows B's placeholder while B's load is
\* pending (or "no image" when B has none), B's image once B's load has
\* succeeded and B's failure text once it has failed, never anything of
\* another location.
C28_StaleCompletionIgnored ==
  /\ [][(/\ lastOp' = "image"
         /\ sidePopup.shown
         /\ \A q \in SettledByStep : promises[q].url # LocationAt(sidePopup.loc).img)
        => sidePopup' = sidePopup]_vars
  /\ [](sidePopup.shown
        => LET img == LocationAt(sidePopup.loc).img
           IN  IF img = ""
               THEN sidePopup.slot = "none" /\ sidePopup.src = ""
               ELSE /\ imageLoadCache[img] # 0
                    /\ LET st == promises[imageLoadCache[img]].state
                       IN  /\ st = "pending"  => sidePopup.slot = "loading" /\ sidePopup.src = ""
                           /\ st = "resolved" => sidePopup.slot = "image" /\ sidePopup.src = img
                           /\ st = "rejected" => sidePopup.slot = "failed" /\ sidePopup.src = "")

\* C28 witness: the panel was opened for a location A with an image and,
\* before that load settled, for a location B with another image; A's load
\* has just settled and the panel still shows B's placeholder.
C28_Witness ==
  /\ lastOp = "image"
  /\ previous # 0
  /\ selected # 0
  /\ sidePopup.shown
  /\ sidePopup.loc = <<markers[selected].call, markers[selected].ci, markers[selected].li>>
  /\ sidePopup.slot = "loading"
  /\ LET a == LocationAt(<<markers[previous].call, markers[previous].ci,
                           markers[previous].li>>).img
     IN  /\ a # ""
         /\ a # LocationAt(sidePopup.loc).img
         /\ promises[imageLoadCache[a]].state # "pending"
         /\ \A q \in 1..Len(promises) :
              promises[q].state # "pending" => promises[q].url = a

\* The focus timeout that fires next belongs to a location of a document
\* that a completed reload has superseded: a later loadData call is done,
\* and its clearLayers took the location's marker off the map, so the focus
\* was requested before that call.
SupersededFocusDue ==
  /\ timers # <<>>
  /\ HasMarker(Head(timers)[1], Head(timers)[2], Head(timers)[3])
  /\ MarkerOf(Head(timers)[1], Head(timers)[2], Head(timers)[3]) \notin markersGroup
  /\ \E c \in 1..Len(calls) : c > Head(timers)[1] /\ calls[c].state = "done"

\* C29 (as claimed): a superseded focus is discarded. The delayed phase of a
\* focusLocation call made before a reload, firing after the reload has
\* completed, does not make a marker of the superseded document the
\* highlighted handle and does not show a location of that document in the
\* detail panel.
C29_SupersededFocusDiscarded ==
  [][(lastOp' = "focusTimeout" /\ SupersededFocusDue)
     => /\ currentHighlightedMarker'
             # MarkerOf(Head(timers)[1], Head(timers)[2], Head(timers)[3])
        /\ ~(sidePopup'.shown /\ sidePopup'.loc = Head(timers))]_vars

====
